---- MODULE Spec2Model ----
(***************************************************************************)
(* A model of the banklytik statement-normalisation pipeline: the date     *)
(* repair / parse / validate / infer functions, the table merger, the      *)
(* processing router and view orchestrator, and the correction-rule store  *)
(* with its concurrent writers and readers.                                *)
(*                                                                         *)
(* Strings are sequences of one-character strings, so that the regular     *)
(* expressions of the source are modelled by what they match.              *)
(***************************************************************************)
EXTENDS Integers, Sequences, FiniteSets, TLC

VARIABLES
    \* ---- date functions (SpecDates) ----
    d_raw,      \* the raw date string given to the operation
    d_parsed,   \* the parsed date handed to validate_date (or None)
    d_ctx,      \* context_dates: the parsed dates of the same table
    d_rules,    \* DateValidator.correction_rules
    d_op,       \* the operation that produced d_out ("init" before any)
    d_out,      \* the operation's result
    \* ---- table merger (SpecMerge) ----
    m_tables,   \* the tables handed to TableMerger.merge_tables
    m_pc,       \* "init" | "done"
    m_out,      \* the merged table, or NoTable
    \* ---- router and view orchestrator (SpecPipeline) ----
    p_in,       \* the run's input: entry point, bank_type, blocks
    p_pc,       \* position of the run in its function
    p_proc,     \* the router's processor and processor_name
    p_tables,   \* tables: how many tables extract_all_tables returned
    p_df,       \* df_raw / df_direct: the table a strategy produced
    p_clean,    \* df_clean
    p_tried,    \* strategies attempted so far, in order, with their outcomes
    p_ret,      \* what the router returned / what the view did with the result
    \* ---- correction-rule store, writers and readers (SpecStore) ----
    s_file,     \* deepseek_knowledge.json: the stored rule list
    s_learn,    \* date_corrections.json: the stored correction_history
    s_cache,    \* knowledge_loader._knowledge_data["examples"], by section
    s_prev,     \* history: the rule list as it was before the latest write
    s_proc,     \* per process: operation, pc, batch, the list it read, what it appended
    s_run       \* the reading run: what it loaded at its start and what it saw since

d_vars == <<d_raw, d_parsed, d_ctx, d_rules, d_op, d_out>>
m_vars == <<m_tables, m_pc, m_out>>
p_vars == <<p_in, p_pc, p_proc, p_tables, p_df, p_clean, p_tried, p_ret>>
s_vars == <<s_file, s_learn, s_cache, s_prev, s_proc, s_run>>
vars == <<d_vars, m_vars, p_vars, s_vars>>

-----------------------------------------------------------------------------
(* Generic sequence helpers *)

Max2(a, b) == IF a >= b THEN a ELSE b
Min2(a, b) == IF a <= b THEN a ELSE b

RECURSIVE Concat(_)
Concat(ss) == IF ss = <<>> THEN <<>> ELSE Head(ss) \o Concat(Tail(ss))

\* s[i..] as a sequence (empty when i > Len(s))
From(s, i) == IF i > Len(s) THEN <<>> ELSE SubSeq(s, i, Len(s))

\* does pat occur in s at position i
OccursAt(s, pat, i) ==
    /\ i >= 1
    /\ i + Len(pat) - 1 <= Len(s)
    /\ \A k \in 1..Len(pat) : s[i + k - 1] = pat[k]

\* Python "pat in s"; for a literal regex also re.search(pat, s)
Contains(s, pat) == \E i \in 1..(Len(s) + 1) : OccursAt(s, pat, i)

-----------------------------------------------------------------------------
(* Character classes of the regular expressions *)

DigitChars == <<"0", "1", "2", "3", "4", "5", "6", "7", "8", "9">>
UpperChars == <<"A", "B", "C", "D", "E", "F", "G", "H", "I", "J", "K", "L", "M",
                "N", "O", "P", "Q", "R", "S", "T", "U", "V", "W", "X", "Y", "Z">>
LowerChars == <<"a", "b", "c", "d", "e", "f", "g", "h", "i", "j", "k", "l", "m",
                "n", "o", "p", "q", "r", "s", "t", "u", "v", "w", "x", "y", "z">>

Range(f) == {f[i] : i \in DOMAIN f}

IsDigit(c) == c \in Range(DigitChars)            \* \d
IsAlpha(c) == c \in Range(UpperChars) \cup Range(LowerChars)   \* [A-Za-z]
IsSpace(c) == c = " "                            \* \s

DigitVal(c) == (CHOOSE i \in DOMAIN DigitChars : DigitChars[i] = c) - 1

\* str.lower() on one character
LowerOf(c) ==
    IF c \in Range(UpperChars)
    THEN LowerChars[CHOOSE i \in DOMAIN UpperChars : UpperChars[i] = c]
    ELSE c

LowerStr(s) == [i \in DOMAIN s |-> LowerOf(s[i])]

AllDigits(s) == \A i \in DOMAIN s : IsDigit(s[i])
AllAlpha(s) == \A i \in DOMAIN s : IsAlpha(s[i])

\* int(s) of a digit string
RECURSIVE IntOf(_)
IntOf(s) ==
    IF s = <<>> THEN 0
    ELSE 10 * IntOf(SubSeq(s, 1, Len(s) - 1)) + DigitVal(s[Len(s)])

\* str(n) of a natural number
RECURSIVE StrOf(_)
StrOf(n) ==
    IF n < 10 THEN <<DigitChars[n + 1]>>
    ELSE StrOf(n \div 10) \o <<DigitChars[(n % 10) + 1]>>

\* str.strip()
RECURSIVE LStrip(_)
LStrip(s) == IF s # <<>> /\ IsSpace(Head(s)) THEN LStrip(Tail(s)) ELSE s
RECURSIVE RStrip(_)
RStrip(s) ==
    IF s # <<>> /\ IsSpace(s[Len(s)]) THEN RStrip(SubSeq(s, 1, Len(s) - 1)) ELSE s
Strip(s) == RStrip(LStrip(s))

\* digits at s[i..j], all inside s
DigitsAt(s, i, j) == j <= Len(s) /\ \A k \in i..j : IsDigit(s[k])
AlphaAt(s, i, j) == j <= Len(s) /\ \A k \in i..j : IsAlpha(s[k])
CharAt(s, i, c) == i <= Len(s) /\ s[i] = c

-----------------------------------------------------------------------------
(* cleaning_utils.fix_missing_space_date *)

\* re.sub(r"(\d{2})(?=\d{2}:\d{2})", r"\1 ", s), scanning from position i
RECURSIVE SubDayTime(_, _)
SubDayTime(s, i) ==
    IF i > Len(s) THEN <<>>
    ELSE IF /\ DigitsAt(s, i, i + 1)
            /\ DigitsAt(s, i + 2, i + 3)
            /\ CharAt(s, i + 4, ":")
            /\ DigitsAt(s, i + 5, i + 6)
         THEN <<s[i], s[i + 1], " ">> \o SubDayTime(s, i + 2)
         ELSE <<s[i]>> \o SubDayTime(s, i + 1)

\* re.sub(r"(\d{4})(?=[A-Za-z]{3,})", r"\1 ", s)
RECURSIVE SubYearMonth(_, _)
SubYearMonth(s, i) ==
    IF i > Len(s) THEN <<>>
    ELSE IF DigitsAt(s, i, i + 3) /\ AlphaAt(s, i + 4, i + 6)
         THEN SubSeq(s, i, i + 3) \o <<" ">> \o SubYearMonth(s, i + 4)
         ELSE <<s[i]>> \o SubYearMonth(s, i + 1)

\* re.sub(r"(\d{2}:\d{2})(?=\d{2})", r"\1 ", s)
RECURSIVE SubTimeSec(_, _)
SubTimeSec(s, i) ==
    IF i > Len(s) THEN <<>>
    ELSE IF /\ DigitsAt(s, i, i + 1)
            /\ CharAt(s, i + 2, ":")
            /\ DigitsAt(s, i + 3, i + 4)
            /\ DigitsAt(s, i + 5, i + 6)
         THEN SubSeq(s, i, i + 4) \o <<" ">> \o SubTimeSec(s, i + 5)
         ELSE <<s[i]>> \o SubTimeSec(s, i + 1)

\* re.sub(r"\s{2,}", " ", s); also re.sub(r"\s+", " ", s) on these strings
RECURSIVE CollapseSpaces(_)
CollapseSpaces(s) ==
    IF s = <<>> THEN <<>>
    ELSE IF IsSpace(Head(s))
         THEN <<" ">> \o CollapseSpaces(LStrip(s))
         ELSE <<Head(s)>> \o CollapseSpaces(Tail(s))

fix_missing_space_date(date_str) ==
    LET s0 == Strip(date_str)
        s1 == SubDayTime(s0, 1)
        s2 == SubYearMonth(s1, 1)
        s3 == SubTimeSec(s2, 1)
        s4 == CollapseSpaces(s3)
    IN  Strip(s4)

-----------------------------------------------------------------------------
(* Tokens: maximal runs of digits, letters and spaces; any other character  *)
(* is a token of its own.  The anchored regular expressions of the source   *)
(* alternate digit, letter, space and literal parts, so each part consumes  *)
(* one whole run.                                                           *)

ClassOf(c) ==
    IF IsDigit(c) THEN "D" ELSE IF IsAlpha(c) THEN "A" ELSE IF IsSpace(c) THEN "S" ELSE c

RECURSIVE RunLen(_, _)
RunLen(s, i) ==
    IF /\ i < Len(s)
       /\ ClassOf(s[i]) \in {"D", "A", "S"}
       /\ ClassOf(s[i + 1]) = ClassOf(s[i])
    THEN 1 + RunLen(s, i + 1)
    ELSE 1

RECURSIVE Tokens(_)
Tokens(s) ==
    IF s = <<>> THEN <<>>
    ELSE LET n == RunLen(s, 1)
         IN  <<[c |-> ClassOf(s[1]), txt |-> SubSeq(s, 1, n)]>> \o Tokens(From(s, n + 1))

Item(c, lo, hi) == [c |-> c, lo |-> lo, hi |-> hi]
D(lo, hi) == Item("D", lo, hi)        \* \d{lo,hi}
A(lo, hi) == Item("A", lo, hi)        \* [A-Za-z]{lo,hi}
Sp == Item("S", 1, 99)                \* \s+
Lit(ch) == Item(ch, 1, 1)

\* re.match(r"^...$", s) for a pattern given as its parts
MatchPat(toks, pat) ==
    /\ Len(toks) = Len(pat)
    /\ \A i \in DOMAIN pat :
          /\ toks[i].c = pat[i].c
          /\ Len(toks[i].txt) >= pat[i].lo
          /\ Len(toks[i].txt) <= pat[i].hi

-----------------------------------------------------------------------------
(* Calendar: datetime, calendar.monthrange, strptime *)

None == [none |-> TRUE]

MonthFull ==
    << <<"j", "a", "n", "u", "a", "r", "y">>,
       <<"f", "e", "b", "r", "u", "a", "r", "y">>,
       <<"m", "a", "r", "c", "h">>,
       <<"a", "p", "r", "i", "l">>,
       <<"m", "a", "y">>,
       <<"j", "u", "n", "e">>,
       <<"j", "u", "l", "y">>,
       <<"a", "u", "g", "u", "s", "t">>,
       <<"s", "e", "p", "t", "e", "m", "b", "e", "r">>,
       <<"o", "c", "t", "o", "b", "e", "r">>,
       <<"n", "o", "v", "e", "m", "b", "e", "r">>,
       <<"d", "e", "c", "e", "m", "b", "e", "r">> >>

\* strptime %B: month number of a full month name, 0 when it is none (case-insensitive)
MonthOfFull(txt) ==
    IF \E i \in DOMAIN MonthFull : MonthFull[i] = LowerStr(txt)
    THEN CHOOSE i \in DOMAIN MonthFull : MonthFull[i] = LowerStr(txt)
    ELSE 0

\* strptime %b: month number of a three-letter abbreviation, 0 when it is none
MonthOfAbbr(txt) ==
    IF \E i \in DOMAIN MonthFull : SubSeq(MonthFull[i], 1, 3) = LowerStr(txt)
    THEN CHOOSE i \in DOMAIN MonthFull : SubSeq(MonthFull[i], 1, 3) = LowerStr(txt)
    ELSE 0

\* strftime('%b'): "Jan", "Feb", ...
MonthAbbr(m) ==
    LET full == MonthFull[m]
    IN  <<UpperChars[CHOOSE i \in DOMAIN LowerChars : LowerChars[i] = full[1]],
          full[2], full[3]>>

IsLeap(y) == (y % 4 = 0 /\ y % 100 # 0) \/ y % 400 = 0

\* calendar.monthrange(year, month)[1]
LastDay(y, m) ==
    IF m = 2 THEN (IF IsLeap(y) THEN 29 ELSE 28)
    ELSE IF m \in {4, 6, 9, 11} THEN 30 ELSE 31

Date(y, m, d, hh, mm, ss) ==
    [year |-> y, month |-> m, day |-> d, hour |-> hh, minute |-> mm, second |-> ss]

\* datetime(y, m, d, hh, mm, ss) raises ValueError outside these ranges
ValidDate(y, m, d, hh, mm, ss) ==
    /\ y >= 1 /\ y <= 9999
    /\ m >= 1 /\ m <= 12
    /\ d >= 1 /\ d <= LastDay(y, m)
    /\ hh <= 23 /\ mm <= 59 /\ ss <= 59

\* datetime(...) inside a try/except: the date, or None when the constructor raises
TryDate(y, m, d, hh, mm, ss) ==
    IF ValidDate(y, m, d, hh, mm, ss) THEN Date(y, m, d, hh, mm, ss) ELSE None

\* days from 0001-01-01, for datetime comparison and timedelta(days=...)
DaysBeforeYear(y) ==
    LET p == y - 1 IN 365 * p + (p \div 4) - (p \div 100) + (p \div 400)
RECURSIVE DaysBeforeMonth(_, _)
DaysBeforeMonth(y, m) ==
    IF m <= 1 THEN 0 ELSE LastDay(y, m - 1) + DaysBeforeMonth(y, m - 1)
Ordinal(dt) == DaysBeforeYear(dt.year) + DaysBeforeMonth(dt.year, dt.month) + dt.day

SecondsOfDay(dt) == 3600 * dt.hour + 60 * dt.minute + dt.second

\* dt1 < dt2 on datetimes
DateLess(a, b) ==
    \/ Ordinal(a) < Ordinal(b)
    \/ Ordinal(a) = Ordinal(b) /\ SecondsOfDay(a) < SecondsOfDay(b)

\* The part of a strptime format: a directive, " " (any whitespace run) or a literal
DirItem(dr) ==
    CASE dr \in {"%d", "%m", "%H", "%M", "%S"} -> D(1, 2)
      [] dr = "%Y" -> D(4, 4)
      [] dr = "%y" -> D(2, 2)
      [] dr \in {"%b", "%B"} -> A(3, 9)
      [] dr = " " -> Sp
      [] OTHER -> Lit(dr)

\* the value ranges of _strptime's directive regular expressions
DirOk(dr, txt) ==
    CASE dr = "%d" -> IntOf(txt) >= 1 /\ IntOf(txt) <= 31
      [] dr = "%m" -> IntOf(txt) >= 1 /\ IntOf(txt) <= 12
      [] dr = "%H" -> IntOf(txt) <= 23
      [] dr = "%M" -> IntOf(txt) <= 59
      [] dr = "%S" -> IntOf(txt) <= 61
      [] dr = "%b" -> Len(txt) = 3 /\ MonthOfAbbr(txt) # 0
      [] dr = "%B" -> MonthOfFull(txt) # 0
      [] OTHER -> TRUE

DirVal(dr, txt) ==
    CASE dr = "%b" -> MonthOfAbbr(txt)
      [] dr = "%B" -> MonthOfFull(txt)
      [] dr = "%y" -> (IF IntOf(txt) <= 68 THEN 2000 + IntOf(txt) ELSE 1900 + IntOf(txt))
      [] OTHER -> IntOf(txt)

\* the value the format's directive (one of drs) captured, or the default
Field(fmt, toks, drs, default) ==
    IF \E i \in DOMAIN fmt : fmt[i] \in drs
    THEN LET i == CHOOSE i \in DOMAIN fmt : fmt[i] \in drs
         IN  DirVal(fmt[i], toks[i].txt)
    ELSE default

\* _strptime's %d also accepts " [1-9]": after a literal of the format the data may
\* hold a space and one non-zero digit (after format whitespace \s+ takes the space)
PadDay(fmt, toks) ==
    IF \E i \in 2..Len(fmt) :
          /\ fmt[i] = "%d"
          /\ DirItem(fmt[i - 1]).c \notin {"D", "A", "S"}
          /\ i + 1 <= Len(toks)
          /\ toks[i].txt = <<" ">>
          /\ toks[i + 1].c = "D"
          /\ Len(toks[i + 1].txt) = 1
          /\ toks[i + 1].txt # <<"0">>
    THEN LET i == CHOOSE i \in 2..Len(fmt) : fmt[i] = "%d"
         IN  SubSeq(toks, 1, i - 1) \o SubSeq(toks, i + 1, Len(toks))
    ELSE toks

\* datetime.strptime(s, fmt), None for ValueError
strptime(s, fmt) ==
    LET toks == PadDay(fmt, Tokens(s))
        pat == [i \in DOMAIN fmt |-> DirItem(fmt[i])]
    IN  IF MatchPat(toks, pat) /\ \A i \in DOMAIN fmt : DirOk(fmt[i], toks[i].txt)
        THEN TryDate(Field(fmt, toks, {"%Y", "%y"}, 1900),
                     Field(fmt, toks, {"%m", "%b", "%B"}, 1),
                     Field(fmt, toks, {"%d"}, 1),
                     Field(fmt, toks, {"%H"}, 0),
                     Field(fmt, toks, {"%M"}, 0),
                     Field(fmt, toks, {"%S"}, 0))
        ELSE None

\* the first format of fmts that parses s, None when none does
RECURSIVE FirstFormat(_, _)
FirstFormat(s, fmts) ==
    IF fmts = <<>> THEN None
    ELSE IF strptime(s, Head(fmts)) # None THEN strptime(s, Head(fmts))
         ELSE FirstFormat(s, Tail(fmts))

-----------------------------------------------------------------------------
(* The date parsers *)

\* str.strip(chars)
RECURSIVE StripChars(_, _)
StripChars(s, cs) ==
    IF s # <<>> /\ Head(s) \in cs THEN StripChars(Tail(s), cs)
    ELSE IF s # <<>> /\ s[Len(s)] \in cs THEN StripChars(SubSeq(s, 1, Len(s) - 1), cs)
    ELSE s

\* the incomplete month+year pattern r'^([A-Za-z]{3,})\s+(\d{4})$'
IsMonthYear(s) == MatchPat(Tokens(s), <<A(3, 99), Sp, D(4, 4)>>)

FlexibleFormats ==
    << <<"%d", " ", "%b", " ", "%Y">>,
       <<"%d", " ", "%B", " ", "%Y">>,
       <<"%b", " ", "%d", " ", "%Y">>,
       <<"%B", " ", "%d", " ", "%Y">>,
       <<"%d", " ", "%m", " ", "%Y">>,
       <<"%Y", " ", "%m", " ", "%d">>,
       <<"%Y", "-", "%m", "-", "%d">>,
       <<"%d", "/", "%m", "/", "%Y">>,
       <<"%m", "/", "%d", "/", "%Y">>,
       <<"%Y", " ", "%b", " ", "%d">>,
       <<"%Y", " ", "%b", " ", "%d", " ", "%H", ":", "%M">>,
       <<"%Y", " ", "%b", " ", "%d", " ", "%H", ":", "%M", ":", "%S">> >>

\* date_validator.parse_date_flexible
parse_date_flexible(date_str) ==
    IF date_str = <<>> THEN None
    ELSE LET s == StripChars(Strip(date_str), {"'", "\""})
         IN  IF FirstFormat(s, FlexibleFormats) # None
             THEN FirstFormat(s, FlexibleFormats)
             ELSE IF IsMonthYear(s) THEN None ELSE None

\* re.sub(r'(\d)([A-Za-z])', r'\1 \2', s)
RECURSIVE SpaceDigitAlpha(_)
SpaceDigitAlpha(s) ==
    IF s = <<>> THEN <<>>
    ELSE IF Len(s) >= 2 /\ IsDigit(s[1]) /\ IsAlpha(s[2])
         THEN <<s[1], " ", s[2]>> \o SpaceDigitAlpha(From(s, 3))
         ELSE <<s[1]>> \o SpaceDigitAlpha(Tail(s))

\* re.sub(r'([A-Za-z])(\d)', r'\1 \2', s)
RECURSIVE SpaceAlphaDigit(_)
SpaceAlphaDigit(s) ==
    IF s = <<>> THEN <<>>
    ELSE IF Len(s) >= 2 /\ IsAlpha(s[1]) /\ IsDigit(s[2])
         THEN <<s[1], " ", s[2]>> \o SpaceAlphaDigit(From(s, 3))
         ELSE <<s[1]>> \o SpaceAlphaDigit(Tail(s))

NigerianFormats ==
    << <<"%Y", " ", "%b", " ", "%d", " ", "%H", ":", "%M", " ", "%S">>,
       <<"%Y", " ", "%b", " ", "%d", " ", "%H", ":", "%M", ":", "%S">>,
       <<"%Y", " ", "%b", " ", "%d", " ", "%H", ":", "%M">>,
       <<"%d", " ", "%b", " ", "%Y", " ", "%H", ":", "%M", " ", "%S">>,
       <<"%d", " ", "%b", " ", "%Y", " ", "%H", ":", "%M", ":", "%S">>,
       <<"%d", " ", "%b", " ", "%Y", " ", "%H", ":", "%M">>,
       <<"%Y", " ", "%b", " ", "%d">>,
       <<"%d", " ", "%b", " ", "%Y">>,
       <<"%Y", "%b", " ", "%d", " ", "%H", ":", "%M", " ", "%S">>,
       <<"%d", "%b", " ", "%Y">> >>

NullWords == { <<"n", "a", "n">>, <<"n", "o", "n", "e">>, <<"n", "a", "t">> }

\* deepseek_cleaning_generation.parse_nigerian_date
parse_nigerian_date(date_val) ==
    LET s0 == Strip(date_val)
    IN  IF s0 = <<>> \/ s0 \in { <<"N", "o", "n", "e">>, <<"N", "a", "T">> } THEN None
        ELSE FirstFormat(SpaceAlphaDigit(SpaceDigitAlpha(CollapseSpaces(s0))),
                         NigerianFormats)

\* re.sub(r"[-\.]", "/", s)
NormSeparators(s) == [i \in DOMAIN s |-> IF s[i] \in {"-", "."} THEN "/" ELSE s[i]]

KnownFormats ==
    << <<"%d", "/", "%m", "/", "%Y", " ", "%H", ":", "%M", ":", "%S">>,
       <<"%d", "/", "%m", "/", "%y", " ", "%H", ":", "%M", ":", "%S">>,
       <<"%d", "/", "%m", "/", "%Y", " ", "%H", ":", "%M">>,
       <<"%d", "/", "%m", "/", "%y", " ", "%H", ":", "%M">>,
       <<"%d", "/", "%m", "/", "%Y">>,
       <<"%d", "/", "%m", "/", "%y">>,
       <<"%Y", "-", "%m", "-", "%d", " ", "%H", ":", "%M", ":", "%S">>,
       <<"%Y", "-", "%m", "-", "%d">>,
       <<"%b", " ", "%d", ",", " ", "%Y">>,
       <<"%d", " ", "%b", " ", "%Y">>,
       <<"%d", " ", "%b", " ", "%Y", " ", "%H", ":", "%M", ":", "%S">> >>

\* step 1: 'YYYY MMM DD HH:MM:SS'; the month by strptime(month_str, "%b")
OpayDateTime(s) ==
    LET t == Tokens(s)
    IN  IF /\ MatchPat(t, <<D(4, 4), Sp, A(3, 3), Sp, D(1, 2), Sp, D(1, 2),
                           Lit(":"), D(2, 2), Lit(":"), D(2, 2)>>)
           /\ MonthOfAbbr(t[3].txt) # 0
        THEN TryDate(IntOf(t[1].txt), MonthOfAbbr(t[3].txt), IntOf(t[5].txt),
                     IntOf(t[7].txt), IntOf(t[9].txt), IntOf(t[11].txt))
        ELSE None

\* step 2: 'DD MMM YYYY'
OpayDate(s) ==
    LET t == Tokens(s)
    IN  IF /\ MatchPat(t, <<D(1, 2), Sp, A(3, 3), Sp, D(4, 4)>>)
           /\ MonthOfAbbr(t[3].txt) # 0
        THEN TryDate(IntOf(t[5].txt), MonthOfAbbr(t[3].txt), IntOf(t[1].txt), 0, 0, 0)
        ELSE None

\* step 3: 'DD/MM/YY HH:MM:SS' on the separator-normalised string
KudaDateTime(s_norm) ==
    LET t == Tokens(s_norm)
    IN  IF MatchPat(t, <<D(1, 2), Lit("/"), D(1, 2), Lit("/"), D(2, 2), Sp, D(1, 2),
                        Lit(":"), D(2, 2), Lit(":"), D(2, 2)>>)
        THEN TryDate(2000 + IntOf(t[5].txt), IntOf(t[3].txt), IntOf(t[1].txt),
                     IntOf(t[7].txt), IntOf(t[9].txt), IntOf(t[11].txt))
        ELSE None

\* step 4: 'DD/MM/YY' or 'DD/MM/YYYY'
KudaDate(s_norm) ==
    LET t == Tokens(s_norm)
    IN  IF MatchPat(t, <<D(1, 2), Lit("/"), D(1, 2), Lit("/"), D(2, 4)>>)
        THEN LET y == IntOf(t[5].txt)
             IN  TryDate(IF y < 100 THEN 2000 + y ELSE y,
                         IntOf(t[3].txt), IntOf(t[1].txt), 0, 0, 0)
        ELSE None

\* step 5: a time-only string gets today's date (utc_now)
TimeOnly(s, utc_now) ==
    LET t == Tokens(s)
    IN  IF MatchPat(t, <<D(1, 2), Lit(":"), D(2, 2), Lit(":"), D(2, 2)>>)
        THEN TryDate(utc_now.year, utc_now.month, utc_now.day,
                     IntOf(t[1].txt), IntOf(t[3].txt), IntOf(t[5].txt))
        ELSE None

\* step 6 opens with the guard: an incomplete month+year string is returned as
\* None before pandas sees it
NoMonthYearGuard(s) == FALSE
MonthYearGuard(s) == IsMonthYear(s)

\* cleaning_utils.parse_date_str.  pd.to_datetime is library code: pandas_result is
\* what it returns for s (a date, or None for NaT or an exception)
parse_date_str(s_raw, utc_now, pandas_result) ==
    LET s == Strip(s_raw)
        s_norm == NormSeparators(s)
    IN  IF s = <<>> \/ LowerStr(s) \in NullWords THEN None
        ELSE IF OpayDateTime(s) # None THEN OpayDateTime(s)
        ELSE IF OpayDate(s) # None THEN OpayDate(s)
        ELSE IF KudaDateTime(s_norm) # None THEN KudaDateTime(s_norm)
        ELSE IF KudaDate(s_norm) # None THEN KudaDate(s_norm)
        ELSE IF TimeOnly(s, utc_now) # None THEN TimeOnly(s, utc_now)
        ELSE IF MonthYearGuard(s) THEN None
        ELSE IF pandas_result # None THEN pandas_result
        ELSE FirstFormat(s, KnownFormats)

-----------------------------------------------------------------------------
(* date_validator.DateValidator *)

MAX_FUTURE_DAYS == 365
MAX_PAST_YEARS == 50

\* datetime.now() / datetime.utcnow() of the run
now == Date(2025, 6, 15, 12, 0, 0)

NullStrings == { <<"n", "a", "t">>, <<"n", "o", "n", "e">>, <<>> }

\* a correction rule of rules/dates/dates.json whose regex is a literal; replace is
\* NoReplace for a detection-only rule (JSON null)
NoReplace == <<"<null>">>
Rule(title, regex, replace, category) ==
    [title |-> title, regex |-> regex, replace |-> replace, category |-> category]

\* re.sub(pat, rep, s) for a literal pat: leftmost non-overlapping occurrences
RECURSIVE ReplaceAll(_, _, _)
ReplaceAll(s, pat, rep) ==
    IF s = <<>> THEN <<>>
    ELSE IF OccursAt(s, pat, 1) THEN rep \o ReplaceAll(From(s, Len(pat) + 1), pat, rep)
    ELSE <<Head(s)>> \o ReplaceAll(Tail(s), pat, rep)

\* "" stands for None in rule_applied and category
RECURSIVE apply_correction_rules(_, _)
apply_correction_rules(correction_rules, date_str) ==
    IF date_str = <<>> \/ correction_rules = <<>>
    THEN [corrected |-> date_str, rule |-> "", category |-> ""]
    ELSE LET rule == Head(correction_rules)
             rest == apply_correction_rules(Tail(correction_rules), date_str)
         IN  IF rule.regex # <<>> /\ Contains(date_str, rule.regex)
             THEN IF rule.replace # NoReplace
                  THEN IF ReplaceAll(date_str, rule.regex, rule.replace) # date_str
                       THEN [corrected |-> ReplaceAll(date_str, rule.regex, rule.replace),
                             rule |-> rule.title, category |-> rule.category]
                       ELSE rest
                  ELSE [corrected |-> date_str, rule |-> rule.title,
                        category |-> rule.category]
             ELSE rest

\* [x for x in dates if pred], keeping the order
RECURSIVE SameYear(_, _)
SameYear(dates, year) ==
    IF dates = <<>> THEN <<>>
    ELSE (IF Head(dates).year = year THEN <<Head(dates)>> ELSE <<>>)
         \o SameYear(Tail(dates), year)

RECURSIVE SameMonthName(_, _)
SameMonthName(dates, abbr) ==
    IF dates = <<>> THEN <<>>
    ELSE (IF MonthAbbr(Head(dates).month) = abbr THEN <<Head(dates)>> ELSE <<>>)
         \o SameMonthName(Tail(dates), abbr)

\* sorted([d.day for d in dates])
RECURSIVE InsertDay(_, _)
InsertDay(days, d) ==
    IF days = <<>> THEN <<d>>
    ELSE IF d <= Head(days) THEN <<d>> \o days
    ELSE <<Head(days)>> \o InsertDay(Tail(days), d)
RECURSIVE SortedDays(_)
SortedDays(dates) ==
    IF dates = <<>> THEN <<>>
    ELSE InsertDay(SortedDays(Tail(dates)), Head(dates).day)

\* sorted(dates)[-1]
MaxDate(dates) ==
    CHOOSE d \in Range(dates) : \A e \in Range(dates) : ~DateLess(d, e)

InferResult(date, confidence) == [date |-> date, confidence |-> confidence, raised |-> FALSE]
\* ValueError of strptime(month_name[:3], '%b'), not caught in the function
InferRaised == [date |-> <<>>, confidence |-> "", raised |-> TRUE]

\* the "Feb 2025" branch of infer_missing_components
InferMissingDay(date_str, context_dates) ==
    LET toks == Tokens(date_str)
        month_name == toks[1].txt
        abbr == SubSeq(month_name, 1, 3)
        year == IntOf(toks[3].txt)
        same_year_dates == SameYear(context_dates, year)
        same_month_dates == SameMonthName(same_year_dates, abbr)
        days == SortedDays(same_month_dates)
    IN  IF same_year_dates # <<>>
        THEN IF same_month_dates # <<>>
             THEN LET median_day == IF Len(days) > 1 THEN days[(Len(days) \div 2) + 1]
                                    ELSE days[1]
                      last_day == LastDay(year, MonthOfAbbr(abbr))
                  IN  InferResult(StrOf(Min2(median_day, last_day)) \o <<" ">> \o date_str,
                                  "HIGH")
             ELSE IF MonthOfAbbr(abbr) = 0 THEN InferRaised
             ELSE LET last_day == LastDay(year, MonthOfAbbr(abbr))
                  IN  InferResult(StrOf(Min2(MaxDate(same_year_dates).day, last_day))
                                  \o <<" ">> \o date_str, "MEDIUM")
        ELSE InferResult(<<"1", "5", " ">> \o date_str, "LOW")

\* the "24 2025" branch
InferMissingMonth(date_str, context_dates) ==
    LET toks == Tokens(date_str)
        day == IntOf(toks[1].txt)
        year == IntOf(toks[3].txt)
        recent_dates == SameYear(context_dates, year)
    IN  IF recent_dates # <<>>
        THEN InferResult(StrOf(day) \o <<" ">>
                         \o MonthAbbr(recent_dates[Len(recent_dates)].month)
                         \o <<" ">> \o StrOf(year), "MEDIUM")
        ELSE InferResult(StrOf(day) \o <<" ">> \o MonthAbbr(now.month)
                         \o <<" ">> \o StrOf(year), "LOW")

\* a resolver that completes a string of neither pattern with the current year
InferAssumingThisYear(date_str, context_dates) ==
    IF date_str = <<>> THEN InferResult(date_str, "LOW")
    ELSE IF IsMonthYear(date_str) THEN InferMissingDay(date_str, context_dates)
    ELSE IF MatchPat(Tokens(date_str), <<D(1, 2), Sp, D(4, 4)>>)
         THEN InferMissingMonth(date_str, context_dates)
    ELSE InferResult(date_str \o <<" ">> \o StrOf(now.year), "LOW")

infer_missing_components(date_str, context_dates) ==
    IF date_str = <<>> THEN InferResult(date_str, "LOW")
    ELSE IF IsMonthYear(date_str) THEN InferMissingDay(date_str, context_dates)
    ELSE IF MatchPat(Tokens(date_str), <<D(1, 2), Sp, D(4, 4)>>)
         THEN InferMissingMonth(date_str, context_dates)
    ELSE InferResult(date_str, "LOW")

classify_date_issue(category) ==
    CASE category = "AUTO_CORRECT" -> "AUTO_CORRECT"
      [] category = "FLAG_REVIEW" -> "MANUAL_REVIEW"
      [] category = "FLAG_CRITICAL" -> "IMMEDIATE_REVIEW"
      [] OTHER -> "NONE"

\* OCR_ERROR_PATTERNS[2], unanchored: r'[A-Za-z]{3}\s+\d{2}:\d{2}'
MonthWithTime(s) ==
    \E i \in 1..Len(s) : \E k \in 1..Len(s) :
        /\ AlphaAt(s, i, i + 2)
        /\ i + 2 + k <= Len(s)
        /\ \A j \in (i + 3)..(i + 2 + k) : IsSpace(s[j])
        /\ DigitsAt(s, i + 3 + k, i + 4 + k)
        /\ CharAt(s, i + 5 + k, ":")
        /\ DigitsAt(s, i + 6 + k, i + 7 + k)

is_ocr_error_pattern(date_str) ==
    IF LowerStr(date_str) \in NullStrings THEN FALSE
    ELSE LET t == Tokens(date_str)
         IN  \/ MatchPat(t, <<D(4, 4), Sp, A(3, 3), Sp, D(1, 2), Lit(":"), D(2, 2), Sp, D(1, 2)>>)
             \/ MatchPat(t, <<D(1, 2), Lit(":"), D(2, 2), Sp, D(1, 2)>>)
             \/ MonthWithTime(date_str)
             \/ MatchPat(t, <<D(4, 4), Sp, A(3, 9), Sp, D(1, 2), Lit(":"), D(2, 2), Sp, D(2, 2)>>)
             \/ MatchPat(t, <<A(3, 3), Sp, D(4, 4)>>)

\* length of the hour that r'(\d{1,2}):(\d{2})(?::(\d{2}))?' matches at i, 0 for no match
HourLen(s, i) ==
    IF DigitsAt(s, i, i + 1) /\ CharAt(s, i + 2, ":") /\ DigitsAt(s, i + 3, i + 4) THEN 2
    ELSE IF DigitsAt(s, i, i) /\ CharAt(s, i + 1, ":") /\ DigitsAt(s, i + 2, i + 3) THEN 1
    ELSE 0

\* re.findall over s from position i: does some match hold an impossible value
RECURSIVE ImpossibleFrom(_, _)
ImpossibleFrom(s, i) ==
    IF i > Len(s) THEN FALSE
    ELSE IF HourLen(s, i) = 0 THEN ImpossibleFrom(s, i + 1)
    ELSE LET h == HourLen(s, i)
             e == i + h + 3
             has_sec == CharAt(s, e, ":") /\ DigitsAt(s, e + 1, e + 2)
             hour == IntOf(SubSeq(s, i, i + h - 1))
             minute == IntOf(SubSeq(s, i + h + 1, i + h + 2))
             second == IF has_sec THEN IntOf(SubSeq(s, e + 1, e + 2)) ELSE 0
         IN  \/ hour > 23 \/ minute > 59 \/ second > 59
             \/ ImpossibleFrom(s, IF has_sec THEN e + 3 ELSE e)

has_impossible_time(date_str) == ImpossibleFrom(date_str, 1)

\* parsed_date > now + timedelta(days=MAX_FUTURE_DAYS)
is_date_too_far_in_future(parsed_date) ==
    /\ parsed_date # None
    /\ \/ Ordinal(parsed_date) > Ordinal(now) + MAX_FUTURE_DAYS
       \/ /\ Ordinal(parsed_date) = Ordinal(now) + MAX_FUTURE_DAYS
          /\ SecondsOfDay(parsed_date) > SecondsOfDay(now)

\* parsed_date < now - timedelta(days=365 * MAX_PAST_YEARS)
is_date_too_far_in_past(parsed_date) ==
    /\ parsed_date # None
    /\ \/ Ordinal(parsed_date) < Ordinal(now) - 365 * MAX_PAST_YEARS
       \/ /\ Ordinal(parsed_date) = Ordinal(now) - 365 * MAX_PAST_YEARS
          /\ SecondsOfDay(parsed_date) < SecondsOfDay(now)

\* the successive assignments to result['warning_level']
LevelAfterOcr(raw) == IF is_ocr_error_pattern(raw) THEN "ERROR" ELSE "INFO"
LevelAfterTime(raw) == IF has_impossible_time(raw) THEN "ERROR" ELSE LevelAfterOcr(raw)
LevelAfterParse(raw, parsed) == IF parsed = None THEN "WARNING" ELSE LevelAfterTime(raw)
LevelAfterFuture(raw, parsed) ==
    IF is_date_too_far_in_future(parsed) THEN "WARNING" ELSE LevelAfterParse(raw, parsed)
LevelAfterPast(raw, parsed) ==
    IF is_date_too_far_in_past(parsed) THEN "WARNING" ELSE LevelAfterFuture(raw, parsed)

Issues(raw, parsed) ==
    (IF is_ocr_error_pattern(raw) THEN <<"OCR_ERROR_PATTERN">> ELSE <<>>)
    \o (IF has_impossible_time(raw) THEN <<"IMPOSSIBLE_TIME">> ELSE <<>>)
    \o (IF parsed = None THEN <<"UNPARSEABLE">> ELSE <<>>)
    \o (IF is_date_too_far_in_future(parsed) THEN <<"DATE_TOO_FAR_FUTURE">> ELSE <<>>)
    \o (IF is_date_too_far_in_past(parsed) THEN <<"DATE_TOO_FAR_PAST">> ELSE <<>>)

validate_date(raw_date_str, parsed_date) ==
    IF LowerStr(raw_date_str) \in NullStrings
    THEN [is_valid |-> FALSE, is_suspicious |-> FALSE, issues |-> <<"NULL_DATE">>,
          warning_level |-> "ERROR"]
    ELSE [is_valid |-> parsed_date # None,
          is_suspicious |-> Issues(raw_date_str, parsed_date) # <<>>,
          issues |-> Issues(raw_date_str, parsed_date),
          warning_level |-> LevelAfterPast(raw_date_str, parsed_date)]

\* enhanced_date_validation.enhanced_validate_row for one row; a ValueError of
\* step 2 is outside the try of step 3 and leaves the function
RowRaised ==
    [raised |-> TRUE, raw_date |-> <<>>, corrections_applied |-> <<>>,
     warning_level |-> "", issues |-> <<>>, action_required |-> "",
     is_valid |-> FALSE, is_suspicious |-> FALSE]

enhanced_validate_row(correction_rules, raw_date, context_dates) ==
    LET c == apply_correction_rules(correction_rules, raw_date)
        rule_applied == c.rule # ""
        infer == c.category \in {"FLAG_REVIEW", "FLAG_CRITICAL"} /\ context_dates # <<>>
        inf == infer_missing_components(c.corrected, context_dates)
        inferred == infer /\ ~inf.raised /\ inf.date # c.corrected
        raw2 == IF inferred THEN inf.date
                ELSE IF rule_applied THEN c.corrected ELSE raw_date
        test_parsed == IF raw2 # <<>> THEN parse_date_flexible(raw2) ELSE None
        v == validate_date(raw2, test_parsed)
        corrections_applied ==
            (IF rule_applied THEN <<c.category>> ELSE <<>>)
            \o (IF inferred THEN <<"INFERRED">> ELSE <<>>)
    IN  IF infer /\ inf.raised THEN RowRaised
        ELSE [raised |-> FALSE, raw_date |-> raw2,
              corrections_applied |-> corrections_applied,
              warning_level |-> v.warning_level, issues |-> v.issues,
              action_required |->
                  IF corrections_applied # <<>>
                  THEN classify_date_issue(corrections_applied[Len(corrections_applied)])
                  ELSE "NONE",
              is_valid |-> v.is_valid, is_suspicious |-> v.is_suspicious]

\* the repair stage: the loaded correction rules, then the built-in spacing fixups
repair(correction_rules, s) ==
    fix_missing_space_date(apply_correction_rules(correction_rules, s).corrected)

-----------------------------------------------------------------------------
(* Inputs of the date functions *)

MaxPieces == 3
MaxRules == 2
MaxCtx == 2

\* all sequences over S of length 1..n
SeqsUpTo(S, n) == UNION {[1..k -> S] : k \in 1..n}

\* date strings as the OCR delivers them, whole
ParseSeeds ==
    { <<"2", "3", " ", "F", "e", "b", " ", "2", "0", "2", "5">>,
      <<"F", "e", "b", " ", "2", "3", " ", "2", "0", "2", "5">>,
      <<"2", "3", "/", "0", "2", "/", "2", "0", "2", "5">>,
      <<"2", "0", "2", "5", "-", "0", "2", "-", "2", "3">>,
      <<"2", "0", "2", "5", " ", "F", "e", "b", " ", "2", "4", " ", "0", "7", ":", "3", "6", ":", "0", "1">>,
      <<"2", "4", "F", "e", "b", " ", "2", "0", "2", "5">>,
      <<"2", "3", ":", "0", "8", ":", "2", "3">>,
      <<"2", "9", "/", "0", "2", "/", "2", "0", "2", "5">>,
      <<"M", "a", "r", " ", "2", "0", "2", "4">>,
      <<"J", "a", "n", " ", " ", "2", "0", "2", "5">>,
      <<" ", "F", "e", "b", " ", "2", "0", "2", "5", " ">>,
      <<"f", "e", "b", "r", "u", "a", "r", "y", " ", "2", "0", "2", "5">>,
      <<"n", "a", "n">> }

\* fragments of date strings; the parsers also see every concatenation of up to
\* MaxPieces of them
Pieces ==
    { <<"F", "e", "b">>,
      <<"F", "e", "b", "r", "u", "a", "r", "y">>,
      <<"X", "y", "z">>,
      <<"M", "a">>,
      <<" ">>,
      <<"2", "0", "2", "5">>,
      <<"2", "3">>,
      <<"/">> }

PieceStrings == {Concat(f) : f \in SeqsUpTo(Pieces, MaxPieces)}

ParseInputs == ParseSeeds \cup PieceStrings

\* what pd.to_datetime may hand back: NaT, or a date
PandasOutcomes == {None, Date(2025, 2, 1, 0, 0, 0), Date(2025, 2, 23, 0, 0, 0)}

DateSeeds ==
    { <<"2", "3", " ", "F", "e", "b", " ", "2", "0", "2", "5">>,
      <<"F", "e", "b", " ", "2", "0", "2", "5">>,
      <<"F", "e", "b", "r", "u", "a", "r", "y", " ", "2", "0", "2", "5">>,
      <<"X", "y", "z", " ", "2", "0", "2", "5">>,
      <<"F", "E", "B", " ", "2", "0", "2", "5">>,
      <<"3", "1", " ", "2", "0", "2", "5">>,
      <<"3", "0", " ", "2", "0", "2", "4">>,
      <<"7", " ", "2", "0", "2", "5">>,
      <<"2", "0", "2", "5", " ", "F", "e", "b", " ", "2", "4", " ", "2", "5", ":", "6", "1", ":", "0", "0">>,
      <<"2", "0", "2", "5", " ", "F", "e", "b", " ", "2", "0", ":", "4", "2", " ", "5", "9">>,
      <<"2", "O", "2", "5", " ", "F", "e", "v", " ", "2", "4">>,
      <<"2", "4", " ", "F", "e", "v", " ", "2", "O", "2", "5">>,
      <<"F", "e", "v", " ", "2", "0", "2", "5">>,
      <<"N", "o", "n", "e">>,
      <<"n", "a", "n">>,
      <<"N", "a", "T">>,
      <<>>,
      <<"2", "3", " ", "F", "e", "b">>,
      <<"2", "3", ":", "0", "8", ":", "2", "3">>,
      <<"2", "3", "/", "0", "2", "/", "1", "9", "0", "0">>,
      <<"2", "4", "/", "0", "2", "/", "2", "0", "3", "0">>,
      <<"2", "0", "2", "5", " ", "F", "e", "b", " ", "2", "4", " ", "0", "7", ":", "3", "6", ":", "0", "1">>,
      <<"2", "0", "2", "5", "F", "e", "b", " ", "2", "3", "1", "0", ":", "3", "0", "5", "9">>,
      <<"2", "4", "F", "e", "b", " ", "2", "0", "2", "5">>,
      <<"2", "0", "2", "5", " ", "F", "e", "b", " ", "2", "4", " ", "1", "0", ":", "3", "0">> }

\* the parsed date of the row's date column, as a caller of validate_date may pass it
ParsedDates == {None, Date(2025, 2, 23, 0, 0, 0), Date(1900, 2, 23, 0, 0, 0),
                Date(2030, 2, 24, 10, 30, 0)}

\* rules as rules/dates/dates.json may hold them
RuleVocabulary ==
    { Rule("ocr_letter_o", <<"O">>, <<"0">>, "AUTO_CORRECT"),
      Rule("ocr_fev", <<"F", "e", "v">>, <<"F", "e", "b">>, "FLAG_CRITICAL"),
      Rule("incomplete_date", <<" ", "2", "0", "2">>, NoReplace, "FLAG_REVIEW") }
RuleSets == {<<>>} \cup SeqsUpTo(RuleVocabulary, MaxRules)

CtxDates == {Date(2025, 2, 10, 0, 0, 0), Date(2025, 1, 31, 0, 0, 0),
             Date(2024, 2, 29, 9, 5, 0)}
Contexts == {<<>>} \cup SeqsUpTo(CtxDates, MaxCtx)

-----------------------------------------------------------------------------
(* Each specification runs one part of the program; the variables of the     *)
(* other parts rest at these values.                                         *)

DatesIdle ==
    /\ d_raw = <<>> /\ d_parsed = None /\ d_ctx = <<>> /\ d_rules = <<>>
    /\ d_op = "idle" /\ d_out = None
MergeIdle == m_tables = <<>> /\ m_pc = "idle" /\ m_out = None
PipeIdle ==
    /\ p_in = None /\ p_pc = "idle" /\ p_proc = None /\ p_tables = 0
    /\ p_df = None /\ p_clean = None /\ p_tried = <<>> /\ p_ret = None
StoreIdle ==
    /\ s_file = <<>> /\ s_learn = <<>> /\ s_cache = None /\ s_prev = <<>>
    /\ s_proc = <<>> /\ s_run = None

-----------------------------------------------------------------------------
(* SpecParse: the three date parsers on one date string *)

ParseInit ==
    /\ d_raw \in ParseInputs
    /\ d_parsed = None /\ d_ctx = <<>> /\ d_rules = <<>>
    /\ d_op = "init" /\ d_out = None
    /\ MergeIdle /\ PipeIdle /\ StoreIdle

ParseDateStr ==
    /\ d_op = "init"
    /\ \E pandas_result \in PandasOutcomes :
          d_out' = [result |-> parse_date_str(d_raw, now, pandas_result),
                    pandas |-> pandas_result]
    /\ d_op' = "parse_date_str"
    /\ UNCHANGED <<d_raw, d_parsed, d_ctx, d_rules, m_vars, p_vars, s_vars>>

ParseDateFlexible ==
    /\ d_op = "init"
    /\ d_out' = [result |-> parse_date_flexible(d_raw), pandas |-> None]
    /\ d_op' = "parse_date_flexible"
    /\ UNCHANGED <<d_raw, d_parsed, d_ctx, d_rules, m_vars, p_vars, s_vars>>

ParseNigerianDate ==
    /\ d_op = "init"
    /\ d_out' = [result |-> parse_nigerian_date(d_raw), pandas |-> None]
    /\ d_op' = "parse_nigerian_date"
    /\ UNCHANGED <<d_raw, d_parsed, d_ctx, d_rules, m_vars, p_vars, s_vars>>

ParseNext == ParseDateStr \/ ParseDateFlexible \/ ParseNigerianDate

SpecParse == ParseInit /\ [][ParseNext]_vars

ParserOps == {"parse_date_str", "parse_date_flexible", "parse_nigerian_date"}

-----------------------------------------------------------------------------
(* SpecDates: validation, inference and repair of one row's date *)

DatesInit ==
    /\ d_raw \in DateSeeds
    /\ d_parsed = None /\ d_ctx = <<>> /\ d_rules = <<>>
    /\ d_op = "init" /\ d_out = None
    /\ MergeIdle /\ PipeIdle /\ StoreIdle

\* DateValidator.validate_date on the raw string and a parsed date
ValidateDate ==
    /\ d_op = "init"
    /\ \E parsed_date \in ParsedDates \cup {parse_date_flexible(d_raw)} :
          /\ d_parsed' = parsed_date
          /\ d_out' = validate_date(d_raw, parsed_date)
    /\ d_op' = "validate_date"
    /\ UNCHANGED <<d_raw, d_ctx, d_rules, m_vars, p_vars, s_vars>>

\* enhanced_date_validation on the row: DateValidator() loads the rules, the table's
\* parsed dates are the context
ValidateRow ==
    /\ d_op = "init"
    /\ \E correction_rules \in RuleSets, context_dates \in Contexts :
          /\ d_rules' = correction_rules
          /\ d_ctx' = context_dates
          /\ d_out' = enhanced_validate_row(correction_rules, d_raw, context_dates)
    /\ d_op' = "validate_row"
    /\ UNCHANGED <<d_raw, d_parsed, m_vars, p_vars, s_vars>>

InferMissing ==
    /\ d_op = "init"
    /\ \E context_dates \in Contexts :
          /\ d_ctx' = context_dates
          /\ d_out' = infer_missing_components(d_raw, context_dates)
    /\ d_op' = "infer"
    /\ UNCHANGED <<d_raw, d_parsed, d_rules, m_vars, p_vars, s_vars>>

\* the repair stage on the raw string
Repair ==
    /\ d_op = "init"
    /\ \E correction_rules \in RuleSets :
          /\ d_rules' = correction_rules
          /\ d_out' = [once |-> repair(correction_rules, d_raw), twice |-> None]
    /\ d_op' = "repair"
    /\ UNCHANGED <<d_raw, d_parsed, d_ctx, m_vars, p_vars, s_vars>>

\* the repair stage again, on its own output and with the same rules
RepairAgain ==
    /\ d_op = "repair"
    /\ d_out' = [once |-> d_out.once, twice |-> repair(d_rules, d_out.once)]
    /\ d_op' = "repair_again"
    /\ UNCHANGED <<d_raw, d_parsed, d_ctx, d_rules, m_vars, p_vars, s_vars>>

\* rules/dates/dates.json as DateValidator() may find it: missing or unreadable,
\* not JSON, or JSON of some shape
JsonRules(rules) == [shape |-> "rules", rules |-> rules]
JsonShapes ==
    {JsonRules(rules) : rules \in {<<>>} \cup SeqsUpTo(RuleVocabulary, 1)}
        \cup {[shape |-> sh] : sh \in {"object", "empty_object", "strings", "number", "null"}}
StoreFiles ==
    {[kind |-> "missing"], [kind |-> "invalid_json"]}
        \cup {[kind |-> "json", value |-> v] : v \in JsonShapes}

\* DateValidator._load_correction_rules: whatever json.load returns, [] on any exception
_load_correction_rules(file) ==
    IF file.kind = "json" THEN file.value ELSE JsonRules(<<>>)

\* 'for rule in self.correction_rules: rule.get(...)' on the loaded value: a number
\* or null is not iterable, the keys of an object and the items of a string list
\* have no get
IterationRaises(correction_rules) ==
    correction_rules.shape \in {"object", "strings", "number", "null"}

\* the rule objects the loop of apply_correction_rules visits without raising
RuleObjects(correction_rules) ==
    IF correction_rules.shape = "rules" THEN correction_rules.rules ELSE <<>>

\* DateValidator() followed by enhanced_validate_row of the row; d_out.loaded is
\* self.correction_rules and d_rules the rule objects in it
LoadAndValidateRow ==
    /\ d_op = "init"
    /\ \E file \in StoreFiles :
          LET correction_rules == _load_correction_rules(file)
          IN  /\ d_rules' = RuleObjects(correction_rules)
              /\ d_out' =
                    [store |-> file,
                     loaded |-> correction_rules,
                     row |-> IF d_raw # <<>> /\ IterationRaises(correction_rules)
                             THEN RowRaised
                             ELSE enhanced_validate_row(
                                      RuleObjects(correction_rules), d_raw, <<>>)]
    /\ d_op' = "load_and_validate"
    /\ UNCHANGED <<d_raw, d_parsed, d_ctx, m_vars, p_vars, s_vars>>

\* ParseDateStr is the parse stage that fills the row's date column before validation
DatesNext ==
    ValidateDate \/ ValidateRow \/ InferMissing \/ Repair \/ RepairAgain \/ ParseDateStr

SpecDates == DatesInit /\ [][DatesNext]_vars

\* SpecRuleStore: one validator built over each state of the rule store
RuleStoreNext == LoadAndValidateRow

SpecRuleStore == DatesInit /\ [][RuleStoreNext]_vars

\* the severity of each check that fired: a null date, an impossible time and
\* OCR garbage mixing month and time are critical (ERROR), a bare month+year and
\* every other issue are review level (WARNING)
SeverityOf(issue, raw) ==
    IF issue \in {"NULL_DATE", "IMPOSSIBLE_TIME"} THEN 2
    ELSE IF issue = "OCR_ERROR_PATTERN" /\ ~IsMonthYear(Strip(raw)) THEN 2
    ELSE 1
LevelRank(level) ==
    CASE level = "ERROR" -> 2 [] level = "WARNING" -> 1 [] OTHER -> 0
HighestSeverity(issues, raw) ==
    IF issues = <<>> THEN 0
    ELSE CHOOSE n \in 0..2 :
            /\ \E i \in DOMAIN issues : SeverityOf(issues[i], raw) = n
            /\ \A i \in DOMAIN issues : SeverityOf(issues[i], raw) <= n

\* C3: when several checks fire for a row, the final severity is not below the
\* severity of any check that fired, whatever the order they ran in; a date with an
\* impossible time (critical) and a further review-level issue ends up critical
C3_SeverityIsHighest ==
    /\ d_op = "validate_date"
          => LevelRank(d_out.warning_level) >= HighestSeverity(d_out.issues, d_raw)
    /\ (d_op = "validate_row" /\ ~d_out.raised)
          => LevelRank(d_out.warning_level)
                >= HighestSeverity(d_out.issues, d_out.raw_date)

\* the day, month and year of an inferred "D Mon YYYY" string
InferredDayOk(date) ==
    LET t == Tokens(date)
        month == IF MonthOfFull(t[3].txt) # 0 THEN MonthOfFull(t[3].txt)
                 ELSE MonthOfAbbr(SubSeq(t[3].txt, 1, 3))
    IN  (MatchPat(t, <<D(1, 2), Sp, A(3, 99), Sp, D(1, 4)>>) /\ month # 0)
            => IntOf(t[1].txt) <= LastDay(IntOf(t[5].txt), month)

\* C5: every date string the inference step produces, for a missing day and for a
\* missing month, in any context, has a day that is at most the last day of its month
C5_InferredDayClamped ==
    (d_op = "infer" /\ ~d_out.raised /\ d_out.date # d_raw) => InferredDayOk(d_out.date)

\* C7: the repair stage applied to its own output, with the same rules, returns that
\* output unchanged
C7_RepairIdempotent ==
    d_op = "repair_again" => d_out.twice = d_out.once

\* C11: validating a row's date never raises, for any raw string, rule set and
\* context: every row handed to enhanced_validate_row comes back with a result
C11_RowNeverRaises ==
    d_op = "validate_row" => ~d_out.raised

\* str(row.get(date_column, '')) of an empty cell and of the null cells None, NaN, NaT
NullRawDates ==
    { <<>>, <<"N", "o", "n", "e">>, <<"n", "a", "n">>, <<"N", "a", "T">> }

\* C12: a row whose raw date is empty or null comes back with the single issue
\* NULL_DATE at the critical level, its raw date unchanged and no correction or
\* inference recorded, whatever the rules and the context are
C12_NullDateIsCritical ==
    (d_op = "validate_row" /\ d_raw \in NullRawDates) =>
        /\ ~d_out.raised
        /\ d_out.issues = <<"NULL_DATE">>
        /\ d_out.warning_level = "ERROR"
        /\ d_out.raw_date = d_raw
        /\ d_out.corrections_applied = <<>>

\* the month and the year a bare month+year string names, and the positions of the
\* context dates of that month and year
MonthNamed(raw) == MonthOfAbbr(SubSeq(Tokens(raw)[1].txt, 1, 3))
YearNamed(raw) == IntOf(Tokens(raw)[3].txt)
SameMonthContext(raw, ctx) ==
    {i \in DOMAIN ctx : ctx[i].year = YearNamed(raw) /\ ctx[i].month = MonthNamed(raw)}

\* day is a median of the days of the same-month context dates: it is one of them,
\* and at least half of them are not above it and at least half are not below it
IsMedianDay(day, raw, ctx) ==
    LET S == SameMonthContext(raw, ctx)
    IN  /\ \E i \in S : ctx[i].day = day
        /\ 2 * Cardinality({i \in S : ctx[i].day <= day}) >= Cardinality(S)
        /\ 2 * Cardinality({i \in S : ctx[i].day >= day}) >= Cardinality(S)

\* C13: for a bare month+year raw date whose table has parsed dates of the same month
\* and year, the inference step returns the raw date with a median day of those
\* dates put before it and confidence HIGH, and row validation leaves the row
\* unparsed at review level
C13_MonthYearMedianDay ==
    (IsMonthYear(d_raw) /\ MonthNamed(d_raw) # 0 /\ SameMonthContext(d_raw, d_ctx) # {}) =>
        /\ d_op = "infer" =>
              /\ ~d_out.raised
              /\ d_out.confidence = "HIGH"
              /\ \E day \in 1..31 :
                    /\ IsMedianDay(day, d_raw, d_ctx)
                    /\ d_out.date = StrOf(day) \o <<" ">> \o d_raw
        /\ d_op = "validate_row" =>
              /\ ~d_out.raised
              /\ ~d_out.is_valid
              /\ d_out.warning_level = "WARNING"

\* a year can be read off the string: four digits in a row, or the two-digit year
\* of a numeric D/M/YY date
TwoDigitYear(s) ==
    LET t == Tokens(NormSeparators(Strip(s)))
    IN  /\ Len(t) >= 5
        /\ MatchPat(SubSeq(t, 1, 5), <<D(1, 2), Lit("/"), D(1, 2), Lit("/"), D(2, 2)>>)
HasYear(s) == (\E i \in 1..Len(s) : DigitsAt(s, i, i + 3)) \/ TwoDigitYear(s)

\* the string ends in whitespace and a four-digit year, as both patterns of the
\* resolver require; the number its last run of digits spells
EndsWithYear(s) ==
    LET t == Tokens(s)
    IN  /\ Len(t) >= 2
        /\ t[Len(t)].c = "D" /\ Len(t[Len(t)].txt) = 4
        /\ t[Len(t) - 1].c = "S"
YearAtEnd(s) ==
    LET t == Tokens(s)
    IN  IF t # <<>> /\ t[Len(t)].c = "D" THEN IntOf(t[Len(t)].txt) ELSE 0 - 1

\* the rule-corrected string that row validation hands to the inference step
CorrectedRaw == apply_correction_rules(d_rules, d_raw).corrected

\* C14 as stated: a raw date with no recoverable year is never given a date: the
\* resolver returns it as it is, the parse stage returns none for it, and row
\* validation leaves it at the critical level
C14_NoYearLeftCritical ==
    (d_raw \notin NullRawDates /\ ~HasYear(d_raw)) =>
        /\ d_op = "infer" => (~d_out.raised /\ d_out.date = d_raw)
        /\ d_op = "parse_date_str" => d_out.result = None
        /\ (d_op = "validate_row" /\ ~HasYear(CorrectedRaw)) =>
              /\ ~d_out.raised
              /\ d_out.raw_date = CorrectedRaw
              /\ d_out.warning_level = "ERROR"

\* C14, amended: the resolver never adds or changes a year.  A string that does not
\* end in a four-digit year comes back unchanged with confidence LOW, alone and inside
\* row validation, and a string the resolver changes ends in the year it ended in
\* before.  The parse stage's own rules give a string without a year a date only
\* when it is a time of day H:M:S, which gets today's date.
C14_ResolverKeepsYear ==
    /\ (d_op = "infer" /\ ~d_out.raised) =>
          /\ ~EndsWithYear(d_raw) => d_out = InferResult(d_raw, "LOW")
          /\ d_out.date # d_raw => YearAtEnd(d_out.date) = YearAtEnd(d_raw)
    /\ (d_op = "validate_row" /\ ~d_out.raised) =>
          /\ ~EndsWithYear(CorrectedRaw) => d_out.raw_date = CorrectedRaw
          /\ d_out.raw_date # CorrectedRaw
                => YearAtEnd(d_out.raw_date) = YearAtEnd(CorrectedRaw)
    /\ (d_op = "parse_date_str" /\ ~HasYear(d_raw) /\ d_out.pandas = None
           /\ d_out.result # None) =>
          /\ MatchPat(Tokens(Strip(d_raw)), <<D(1, 2), Lit(":"), D(2, 2), Lit(":"), D(2, 2)>>)
          /\ d_out.result.year = now.year
          /\ d_out.result.month = now.month
          /\ d_out.result.day = now.day

\* the resolver was given a day and month without a year, together with context
\* dates, and returned it unchanged
C14_Witness ==
    /\ d_op = "infer"
    /\ d_raw \notin NullRawDates /\ ~HasYear(d_raw) /\ d_ctx # <<>>
    /\ MatchPat(Tokens(d_raw), <<D(1, 2), Sp, A(3, 3)>>)
    /\ d_out = InferResult(d_raw, "LOW")

\* the store holds a list of rule objects
IsRuleList(file) == file.kind = "json" /\ file.value.shape = "rules"

\* C16: loading the rule store never fails and a store that is missing, unreadable,
\* not JSON or not a list of rule objects acts as the empty rule set: the row is
\* validated without raising and gets the result it gets with no rules at all
C16_BadStoreIsEmpty ==
    d_op = "load_and_validate" =>
        /\ ~d_out.row.raised
        /\ ~IsRuleList(d_out.store)
              => d_out.row = enhanced_validate_row(<<>>, d_raw, <<>>)

-----------------------------------------------------------------------------
(* Amounts: clean_amount and the three places that split a signed amount    *)
(* into debit and credit.  A float amount is its number of kobo (hundredths *)
(* of a naira); the statements carry at most two decimals.  "N" stands for  *)
(* the naira sign.                                                          *)

KeepChars(s, cs) == SelectSeq(s, LAMBDA c : c \in cs)
DropChars(s, cs) == SelectSeq(s, LAMBDA c : c \notin cs)

\* the kobo of a two-digit fraction: ".5" is 50, ".05" is 5
FractionKobo(frac) ==
    IF frac = <<>> THEN 0
    ELSE IF Len(frac) = 1 THEN 10 * DigitVal(frac[1])
    ELSE 10 * DigitVal(frac[1]) + DigitVal(frac[2])

\* float(s) for a string of digits, "." and "-": does it succeed, and its value
Unsigned(s) == IF s # <<>> /\ Head(s) = "-" THEN Tail(s) ELSE s
IsFloat(s) ==
    LET body == Unsigned(s)
    IN  /\ Cardinality({i \in DOMAIN body : body[i] = "."}) <= 1
        /\ \A i \in DOMAIN body : body[i] # "-"
        /\ \E i \in DOMAIN body : IsDigit(body[i])
FloatOf(s) ==
    LET body == Unsigned(s)
        dots == {i \in DOMAIN body : body[i] = "."}
        dot == IF dots = {} THEN Len(body) + 1 ELSE CHOOSE i \in dots : TRUE
        kobo == 100 * IntOf(SubSeq(body, 1, dot - 1))
                    + FractionKobo(SubSeq(body, dot + 1, Len(body)))
    IN  IF body # s THEN 0 - kobo ELSE kobo

\* cleaning_utils.clean_amount on a string cell
clean_amount(value) ==
    LET s == KeepChars(Strip(DropChars(value, {"N", ","})), Range(DigitChars) \cup {".", "-"})
    IN  IF IsFloat(s) THEN FloatOf(s) ELSE 0

Abs(x) == IF x < 0 THEN 0 - x ELSE x

\* robust_clean_dataframe, standardized format: the 'amount' column split on its sign
SplitAmountColumn(amount) ==
    LET x == clean_amount(amount)
    IN  [debit |-> IF x < 0 THEN Abs(x) ELSE 0,
         credit |-> IF x > 0 THEN Abs(x) ELSE 0,
         kept |-> TRUE]

\* robust_clean_dataframe, old format, and _clean_table_dataframe: the combined
\* 'Debit/Credit' column split on the sign character it holds
SplitDebitCredit(x) ==
    [debit |-> IF Contains(x, <<"-">>) THEN clean_amount(x) ELSE 0,
     credit |-> IF Contains(x, <<"+">>) THEN clean_amount(x) ELSE 0,
     kept |-> TRUE]

\* one match of r'[N$]?\s*(\d{1,3}(?:,\d{3})*(?:\.\d{2})?)' tried at position i:
\* where the digits start, and where the match ends (0 for no match)
RECURSIVE SkipSpaces(_, _)
SkipSpaces(s, i) == IF i <= Len(s) /\ IsSpace(s[i]) THEN SkipSpaces(s, i + 1) ELSE i
RECURSIVE SkipGroups(_, _)
SkipGroups(s, i) ==
    IF CharAt(s, i, ",") /\ DigitsAt(s, i + 1, i + 3) THEN SkipGroups(s, i + 4) ELSE i
AmountStart(s, i) == SkipSpaces(s, IF s[i] \in {"N", "$"} THEN i + 1 ELSE i)
AmountEnd(s, i) ==
    LET j == AmountStart(s, i)
        n == IF DigitsAt(s, j, j + 2) THEN 3 ELSE IF DigitsAt(s, j, j + 1) THEN 2
             ELSE IF DigitsAt(s, j, j) THEN 1 ELSE 0
        g == SkipGroups(s, j + n)
    IN  IF n = 0 THEN 0
        ELSE IF CharAt(s, g, ".") /\ DigitsAt(s, g + 1, g + 2) THEN g + 3 ELSE g

\* _parse_opay_line: amounts = re.findall(...) over the whole line, each as a float
RECURSIVE OpayAmounts(_, _)
OpayAmounts(line, i) ==
    IF i > Len(line) THEN <<>>
    ELSE IF AmountEnd(line, i) = 0 THEN OpayAmounts(line, i + 1)
    ELSE <<FloatOf(DropChars(SubSeq(line, AmountStart(line, i), AmountEnd(line, i) - 1),
                             {","}))>>
         \o OpayAmounts(line, AmountEnd(line, i))

\* _parse_opay_line and _is_valid_opay_transaction: debit and credit of the line's row
ParseOpayAmounts(line) ==
    LET amounts == OpayAmounts(line, 1)
        transaction_amount == IF amounts = <<>> THEN 0 ELSE amounts[1]
        debit == IF transaction_amount > 0 THEN 0 ELSE Abs(transaction_amount)
        credit == IF transaction_amount > 0 THEN transaction_amount ELSE 0
    IN  [debit |-> debit, credit |-> credit, kept |-> debit # 0 \/ credit # 0]

\* an OPay statement line: date and time, description, amount, balance
OpayLine(amount) ==
    <<"2", "0", "2", "5", " ", "F", "e", "b", " ", "2", "4", " ",
      "0", "7", ":", "3", "6", ":", "0", "1", " ",
      "T", "r", "a", "n", "s", "f", "e", "r", " ">>
    \o amount \o <<" ", "1", ",", "5", "0", "0", ".", "0", "0">>

\* the amounts as the statements print them: sign, currency sign, magnitude
Signs == {<<>>, <<"-">>, <<"+">>}
Currencies == {<<>>, <<"N">>}
Magnitudes ==
    { [txt |-> <<"5", "0", "0", ".", "0", "0">>, kobo |-> 50000],
      [txt |-> <<"1", ",", "0", "0", "0", ".", "0", "0">>, kobo |-> 100000],
      [txt |-> <<"1", "2", ",", "3", "4", "5", ".", "6", "7">>, kobo |-> 1234567],
      [txt |-> <<"7", "5">>, kobo |-> 7500],
      [txt |-> <<"0", ".", "5", "0">>, kobo |-> 50],
      [txt |-> <<"0", ".", "0", "0">>, kobo |-> 0] }
\* cells that hold no amount
BrokenAmounts ==
    { <<>>, <<"-">>, <<"-", "-">>, <<"5", "0", "0", "-">>, <<"1", ".", "2", ".", "3">> }
AmountInputs ==
    {sg \o cu \o m.txt : sg \in Signs, cu \in Currencies, m \in Magnitudes}
        \cup BrokenAmounts

AmountsInit ==
    /\ d_raw \in AmountInputs
    /\ d_parsed = None /\ d_ctx = <<>> /\ d_rules = <<>>
    /\ d_op = "init" /\ d_out = None
    /\ MergeIdle /\ PipeIdle /\ StoreIdle

\* robust_clean_dataframe on a standardized table with an 'amount' column
CleanAmountColumn ==
    /\ d_op = "init"
    /\ d_out' = SplitAmountColumn(d_raw)
    /\ d_op' = "split_amount"
    /\ UNCHANGED <<d_raw, d_parsed, d_ctx, d_rules, m_vars, p_vars, s_vars>>

\* robust_clean_dataframe on an old-format table with a 'Debit/Credit(W)' column
CleanOldFormat ==
    /\ d_op = "init"
    /\ d_out' = SplitDebitCredit(d_raw)
    /\ d_op' = "split_old_format"
    /\ UNCHANGED <<d_raw, d_parsed, d_ctx, d_rules, m_vars, p_vars, s_vars>>

\* _clean_table_dataframe on a table with a debit_credit column
CleanTableDataframe ==
    /\ d_op = "init"
    /\ d_out' = SplitDebitCredit(d_raw)
    /\ d_op' = "split_debit_credit"
    /\ UNCHANGED <<d_raw, d_parsed, d_ctx, d_rules, m_vars, p_vars, s_vars>>

\* process_opay_statement on a line whose amount is d_raw
ParseOpayLine ==
    /\ d_op = "init"
    /\ d_out' = ParseOpayAmounts(OpayLine(d_raw))
    /\ d_op' = "parse_opay_line"
    /\ UNCHANGED <<d_raw, d_parsed, d_ctx, d_rules, m_vars, p_vars, s_vars>>

AmountsNext == CleanAmountColumn \/ CleanOldFormat \/ CleanTableDataframe \/ ParseOpayLine

SpecAmounts == AmountsInit /\ [][AmountsNext]_vars

SplitOps == {"split_amount", "split_old_format", "split_debit_credit", "parse_opay_line"}

\* C15: every row made from a signed amount has debit >= 0 and credit >= 0 and at
\* most one of them non-zero; a negative amount gives debit = its magnitude and
\* credit = 0, an amount marked positive gives credit = its magnitude and debit = 0
C15_DebitCreditSplit ==
    (d_op \in SplitOps /\ d_out.kept) =>
        /\ d_out.debit >= 0 /\ d_out.credit >= 0
        /\ d_out.debit = 0 \/ d_out.credit = 0
        /\ \A sg \in Signs, cu \in Currencies, m \in Magnitudes :
              (d_raw = sg \o cu \o m.txt /\ m.kobo # 0) =>
                  /\ sg = <<"-">> => (d_out.debit = m.kobo /\ d_out.credit = 0)
                  /\ sg = <<"+">> => (d_out.credit = m.kobo /\ d_out.debit = 0)

-----------------------------------------------------------------------------
(* table_merger.TableMerger.  A table (DataFrame) is its column names, its   *)
(* row labels (the index) and its rows of cells; a cell is a string, None or *)
(* NaN.                                                                      *)

NoneCell == <<"<None>">>
NaNCell == <<"<NaN>">>
NoTable == [none |-> TRUE]

Table(columns, index, rows) == [columns |-> columns, index |-> index, rows |-> rows]

\* DataFrame.empty
IsEmptyTable(df) == df.rows = <<>> \/ df.columns = <<>>

\* pd.isna(v); str(v); bool(v)
IsNull(v) == v \in {NoneCell, NaNCell}
StrOfCell(v) ==
    IF v = NoneCell THEN <<"N", "o", "n", "e">>
    ELSE IF v = NaNCell THEN <<"n", "a", "n">> ELSE v
Truthy(v) == v = NaNCell \/ v \notin {NoneCell, <<>>}

\* the increasing sequence of the numbers of S
RECURSIVE SortedSeq(_)
SortedSeq(S) ==
    IF S = {} THEN <<>>
    ELSE LET m == CHOOSE x \in S : \A y \in S : x <= y
         IN  <<m>> \o SortedSeq(S \ {m})

\* 0, 1, ..., n-1: a fresh RangeIndex
RangeIndex(n) == [i \in 1..n |-> i - 1]

\* position of column c in df
ColPos(df, c) == CHOOSE j \in DOMAIN df.columns : df.columns[j] = c
\* df[c] as the sequence of its values
ColumnOf(df, c) == [i \in DOMAIN df.rows |-> df.rows[i][ColPos(df, c)]]

column_aliases ==
    << [type |-> <<"d", "a", "t", "e">>,
        aliases |-> {<<"d", "a", "t", "e">>,
                     <<"t", "i", "m", "e">>,
                     <<"d", "a", "t", "e", "t", "i", "m", "e">>,
                     <<"t", "r", "a", "n", "s", "a", "c", "t", "i", "o", "n", " ", "d", "a", "t", "e">>,
                     <<"t", "r", "a", "n", "s", " ", "d", "a", "t", "e">>}],
       [type |-> <<"d", "e", "s", "c", "r", "i", "p", "t", "i", "o", "n">>,
        aliases |-> {<<"d", "e", "s", "c", "r", "i", "p", "t", "i", "o", "n">>,
                     <<"d", "e", "s", "c">>,
                     <<"p", "a", "r", "t", "i", "c", "u", "l", "a", "r", "s">>,
                     <<"d", "e", "t", "a", "i", "l", "s">>,
                     <<"n", "a", "r", "r", "a", "t", "i", "o", "n">>}],
       [type |-> <<"d", "e", "b", "i", "t">>,
        aliases |-> {<<"d", "e", "b", "i", "t">>,
                     <<"w", "i", "t", "h", "d", "r", "a", "w", "a", "l">>,
                     <<"d", "r">>,
                     <<"d", "e", "b", "i", "t", " ", "a", "m", "o", "u", "n", "t">>}],
       [type |-> <<"c", "r", "e", "d", "i", "t">>,
        aliases |-> {<<"c", "r", "e", "d", "i", "t">>,
                     <<"d", "e", "p", "o", "s", "i", "t">>,
                     <<"c", "r">>,
                     <<"c", "r", "e", "d", "i", "t", " ", "a", "m", "o", "u", "n", "t">>}],
       [type |-> <<"a", "m", "o", "u", "n", "t">>,
        aliases |-> {<<"a", "m", "o", "u", "n", "t">>,
                     <<"t", "r", "a", "n", "s", "a", "c", "t", "i", "o", "n", " ", "a", "m", "o", "u", "n", "t">>,
                     <<"v", "a", "l", "u", "e">>}],
       [type |-> <<"b", "a", "l", "a", "n", "c", "e">>,
        aliases |-> {<<"b", "a", "l", "a", "n", "c", "e">>,
                     <<"r", "u", "n", "n", "i", "n", "g", " ", "b", "a", "l", "a", "n", "c", "e">>,
                     <<"a", "v", "a", "i", "l", "a", "b", "l", "e", " ", "b", "a", "l", "a", "n", "c", "e">>}],
       [type |-> <<"r", "e", "f", "e", "r", "e", "n", "c", "e">>,
        aliases |-> {<<"r", "e", "f", "e", "r", "e", "n", "c", "e">>,
                     <<"r", "e", "f">>,
                     <<"t", "r", "a", "n", "s", "a", "c", "t", "i", "o", "n", " ", "r", "e", "f">>,
                     <<"t", "r", "n", " ", "r", "e", "f">>}] >>

\* the first column type one of whose aliases occurs in the name, <<>> for none
RECURSIVE MatchedType(_, _)
MatchedType(col_lower, types) ==
    IF types = <<>> THEN <<>>
    ELSE IF \E alias \in Head(types).aliases : Contains(col_lower, alias)
         THEN Head(types).type
         ELSE MatchedType(col_lower, Tail(types))

_standardize_column_names(df) ==
    IF IsEmptyTable(df) THEN df
    ELSE Table([i \in DOMAIN df.columns |->
                   LET matched_type == MatchedType(Strip(LowerStr(df.columns[i])),
                                                   column_aliases)
                   IN  IF matched_type # <<>> THEN matched_type
                       ELSE <<"c", "o", "l", "_">> \o StrOf(i - 1)],
               df.index, df.rows)

\* rows and columns of df picked by position, labels kept
TakeRows(df, keep) ==
    Table(df.columns, [k \in DOMAIN keep |-> df.index[keep[k]]],
          [k \in DOMAIN keep |-> df.rows[keep[k]]])
TakeCols(df, keep) ==
    Table([k \in DOMAIN keep |-> df.columns[keep[k]]], df.index,
          [i \in DOMAIN df.rows |-> [k \in DOMAIN keep |-> df.rows[i][keep[k]]]])

_clean_dataframe(df) ==
    IF IsEmptyTable(df) THEN df
    ELSE LET d1 == TakeRows(df, SortedSeq({i \in DOMAIN df.rows :
                        \E j \in DOMAIN df.columns : ~IsNull(df.rows[i][j])}))
             d2 == TakeCols(d1, SortedSeq({j \in DOMAIN d1.columns :
                        \E i \in DOMAIN d1.rows : ~IsNull(d1.rows[i][j])}))
         IN  TakeRows(d2, SortedSeq({i \in DOMAIN d2.rows :
                        \E j \in DOMAIN d2.columns :
                            Strip(StrOfCell(d2.rows[i][j])) # <<>>}))

\* a regular expression as its parts; a part is a character class repeated lo..hi times
OneOf(set) == [c |-> "L", lo |-> 1, hi |-> 1, set |-> set]
InClass(ch, item) ==
    CASE item.c = "D" -> IsDigit(ch)
      [] item.c = "A" -> IsAlpha(ch)
      [] item.c = "S" -> IsSpace(ch)
      [] OTHER -> ch \in item.set

\* re.match(pat, s): pat matches a prefix of s[i..]
RECURSIVE PrefixMatch(_, _, _)
PrefixMatch(s, i, pat) ==
    IF pat = <<>> THEN TRUE
    ELSE \E n \in Head(pat).lo..Min2(Head(pat).hi, Len(s) - i + 1) :
            /\ \A k \in i..(i + n - 1) : InClass(s[k], Head(pat))
            /\ PrefixMatch(s, i + n, Tail(pat))

date_patterns ==
    { <<D(1, 2), OneOf({"/", "-"}), D(1, 2), OneOf({"/", "-"}), D(2, 4)>>,
      <<D(1, 2), Sp, A(3, 3), Sp, D(4, 4)>>,
      <<D(4, 4), OneOf({"-"}), D(2, 2), OneOf({"-"}), D(2, 2)>> }

\* re.search of the currency patterns: the third, r'[\d,]+\.?\d*', matches as soon
\* as the value holds a digit or a comma, and the other two hold such a run too
LooksLikeCurrency(val) == \E i \in DOMAIN val : IsDigit(val[i]) \/ val[i] = ","

RECURSIVE SumLen(_)
SumLen(vals) == IF vals = <<>> THEN 0 ELSE Len(Head(vals)) + SumLen(Tail(vals))

TypeSampleRows == 20

_infer_column_type(series) ==
    IF series = <<>> THEN "unknown"
    ELSE LET sample == [i \in 1..Min2(Len(series), TypeSampleRows) |-> StrOfCell(series[i])]
             date_count == Cardinality({i \in DOMAIN sample :
                               \E pat \in date_patterns : PrefixMatch(sample[i], 1, pat)})
             currency_count == Cardinality({i \in DOMAIN sample : LooksLikeCurrency(sample[i])})
         IN  IF 10 * date_count > 3 * Len(sample) THEN "date"
             ELSE IF 10 * currency_count > 3 * Len(sample) THEN "amount"
             ELSE IF SumLen(sample) > 10 * Len(sample) THEN "text"
             ELSE "unknown"

\* str.split(): the words of a name
RECURSIVE Words(_)
Words(s) ==
    LET t == LStrip(s)
    IN  IF t = <<>> THEN {}
        ELSE LET n == CHOOSE n \in 1..Len(t) :
                         /\ \A k \in 1..n : ~IsSpace(t[k])
                         /\ (n = Len(t) \/ IsSpace(t[n + 1]))
             IN  {SubSeq(t, 1, n)} \cup Words(From(t, n + 1))

\* scores in thousandths: 1.0, 0.8, 0.6, 0.0
_calculate_name_similarity(name1, name2) ==
    LET n1 == LowerStr(name1)
        n2 == LowerStr(name2)
    IN  IF n1 = n2 THEN 1000
        ELSE IF Contains(n2, n1) \/ Contains(n1, n2) THEN 800
        ELSE IF Words(n1) \cap Words(n2) # {} THEN 600
        ELSE 0

_calculate_content_similarity(series1, series2) ==
    IF series1 = <<>> \/ series2 = <<>> THEN 0
    ELSE IF _infer_column_type(series1) # _infer_column_type(series2) THEN 0
    ELSE 700

\* total_score in thousandths of thousandths: 0.4 type + 0.3 name + 0.3 content
TotalScore(table1, col1, table2, col2) ==
    400 * (IF _infer_column_type(ColumnOf(table1, col1))
              = _infer_column_type(ColumnOf(table2, col2)) THEN 1000 ELSE 0)
    + 300 * _calculate_name_similarity(col1, col2)
    + 300 * _calculate_content_similarity(ColumnOf(table1, col1), ColumnOf(table2, col2))

\* the column of table2 that the loop leaves in best_match for col1, 0 for none:
\* the first one with the highest score above 0.5
BestMatch(table1, col1, table2) ==
    LET good == {j \in DOMAIN table2.columns :
                    /\ TotalScore(table1, col1, table2, table2.columns[j]) > 500000
                    /\ \A k \in DOMAIN table2.columns :
                          \/ TotalScore(table1, col1, table2, table2.columns[k])
                               < TotalScore(table1, col1, table2, table2.columns[j])
                          \/ /\ TotalScore(table1, col1, table2, table2.columns[k])
                                  = TotalScore(table1, col1, table2, table2.columns[j])
                             /\ k >= j}
    IN  IF good = {} THEN 0 ELSE CHOOSE j \in good : TRUE

\* matches as the position in table2 matched to each column of table1 (0: none)
_find_column_matches(table1, table2) ==
    [i \in DOMAIN table1.columns |-> BestMatch(table1, table1.columns[i], table2)]

\* pd.DataFrame(aligned_data): the matched columns keep the labels of the table, an
\* unmatched column is a fresh Series of Nones labelled 0..len-1; the frame's index
\* is the sorted union of the labels and a column is NaN where it lacks a label
_align_table_structure(table, target_columns, column_matches) ==
    LET n == Len(table.rows)
        matched == {i \in DOMAIN target_columns : column_matches[i] # 0}
        unmatched == DOMAIN target_columns \ matched
        labels == (IF matched # {} THEN Range(table.index) ELSE {})
                  \cup (IF unmatched # {} THEN 0..(n - 1) ELSE {})
        index == SortedSeq(labels)
        RowAt(l) == CHOOSE r \in DOMAIN table.index : table.index[r] = l
    IN  Table(target_columns, index,
              [k \in DOMAIN index |->
                 [i \in DOMAIN target_columns |->
                    IF i \in matched
                    THEN IF index[k] \in Range(table.index)
                         THEN table.rows[RowAt(index[k])][column_matches[i]]
                         ELSE NaNCell
                    ELSE IF index[k] < n THEN NoneCell ELSE NaNCell]])

\* pd.concat([a, b], ignore_index=True) of frames with the same columns
ConcatRows(a, b) ==
    Table(a.columns, RangeIndex(Len(a.rows) + Len(b.rows)), a.rows \o b.rows)

RECURSIVE _try_smart_vertical_merge(_)
_try_smart_vertical_merge(tables) ==
    IF Len(tables) < 2 THEN (IF tables # <<>> THEN tables[1] ELSE NoTable)
    ELSE LET n == Len(tables)
             base_table == IF n = 2 THEN tables[1]
                           ELSE _try_smart_vertical_merge(SubSeq(tables, 1, n - 1))
             current_table == tables[n]
             column_matches == _find_column_matches(base_table, current_table)
         IN  ConcatRows(base_table,
                        _align_table_structure(current_table, base_table.columns,
                                               column_matches))

header_keywords ==
    << <<"d", "a", "t", "e">>,
       <<"t", "i", "m", "e">>,
       <<"d", "a", "t", "e", "t", "i", "m", "e">>,
       <<"t", "r", "a", "n", "s">>,
       <<"d", "e", "s", "c", "r", "i", "p", "t", "i", "o", "n">>,
       <<"p", "a", "r", "t", "i", "c", "u", "l", "a", "r", "s">>,
       <<"d", "e", "t", "a", "i", "l", "s">>,
       <<"n", "a", "r", "r", "a", "t", "i", "o", "n">>,
       <<"d", "e", "b", "i", "t">>,
       <<"c", "r", "e", "d", "i", "t">>,
       <<"a", "m", "o", "u", "n", "t">>,
       <<"m", "o", "n", "e", "y">>,
       <<"b", "a", "l", "a", "n", "c", "e">>,
       <<"r", "e", "f", "e", "r", "e", "n", "c", "e">>,
       <<"c", "h", "a", "n", "n", "e", "l">>,
       <<"c", "a", "t", "e", "g", "o", "r", "y">>,
       <<"t", "o", " ", "/", " ", "f", "r", "o", "m">>,
       <<"f", "r", "o", "m", "/", "t", "o">> >>

\* ' '.join(str(val).lower().strip() for val in row if val)
RECURSIVE RowStr(_)
RowStr(row) ==
    IF row = <<>> THEN <<>>
    ELSE IF ~Truthy(Head(row)) THEN RowStr(Tail(row))
    ELSE LET rest == RowStr(Tail(row))
             word == Strip(LowerStr(StrOfCell(Head(row))))
         IN  IF \E j \in DOMAIN Tail(row) : Truthy(Tail(row)[j])
             THEN word \o <<" ">> \o rest ELSE word

_remove_header_rows(df) ==
    IF IsEmptyTable(df) THEN df
    ELSE LET rows_to_keep == SortedSeq({i \in DOMAIN df.rows :
                 10 * Cardinality({k \in DOMAIN header_keywords :
                          Contains(RowStr(df.rows[i]), header_keywords[k])})
                   < 3 * Len(header_keywords)})
         IN  IF rows_to_keep # <<>>
             THEN Table(df.columns, RangeIndex(Len(rows_to_keep)),
                        [k \in DOMAIN rows_to_keep |-> df.rows[rows_to_keep[k]]])
             ELSE df

\* the tables after standardising and cleaning, the empty ones left out
RECURSIVE AlignedTables(_)
AlignedTables(tables) ==
    IF tables = <<>> THEN <<>>
    ELSE LET df == _clean_dataframe(_standardize_column_names(Head(tables)))
         IN  (IF IsEmptyTable(df) THEN <<>> ELSE <<df>>) \o AlignedTables(Tail(tables))

\* the column names every table has
CommonColumns(tables) ==
    {c \in UNION {Range(tables[i].columns) : i \in DOMAIN tables} :
        \A i \in DOMAIN tables : c \in Range(tables[i].columns)}

\* common_columns is filled by iterating a set: any order of the common names
Orderings(S) ==
    {f \in [1..Cardinality(S) -> S] : \A i, j \in 1..Cardinality(S) : f[i] = f[j] => i = j}

\* pd.concat([table[common_columns] for table in tables], ignore_index=True)
RECURSIVE ConcatCommon(_, _)
ConcatCommon(tables, common_columns) ==
    LET first == TakeCols(Head(tables),
                          [k \in DOMAIN common_columns |->
                              ColPos(Head(tables), common_columns[k])])
    IN  IF Len(tables) = 1
        THEN Table(first.columns, RangeIndex(Len(first.rows)), first.rows)
        ELSE ConcatRows(first, ConcatCommon(Tail(tables), common_columns))

_try_vertical_merge(tables, common_columns) ==
    IF tables = <<>> THEN NoTable
    ELSE IF common_columns = <<>> THEN _try_smart_vertical_merge(tables)
    ELSE _remove_header_rows(ConcatCommon(tables, common_columns))

\* max(aligned_tables, key=len): the first of the longest
LargestTable(tables) ==
    tables[CHOOSE i \in DOMAIN tables :
              /\ \A j \in DOMAIN tables : Len(tables[j].rows) <= Len(tables[i].rows)
              /\ \A j \in 1..(i - 1) : Len(tables[j].rows) < Len(tables[i].rows)]

merge_tables(tables, common_columns) ==
    IF tables = <<>> THEN NoTable
    ELSE IF Len(tables) = 1 THEN tables[1]
    ELSE LET aligned_tables == AlignedTables(tables)
             merged_df == _try_vertical_merge(aligned_tables, common_columns)
         IN  IF aligned_tables = <<>> THEN NoTable
             ELSE IF merged_df # NoTable /\ ~IsEmptyTable(merged_df) THEN merged_df
             ELSE LargestTable(aligned_tables)

-----------------------------------------------------------------------------
(* SpecMerge: one call of merge_tables on the selected tables *)

MaxTables == 2

\* tables as the manual table selection hands them over
TableVocabulary ==
    { Table(<<<<"D", "a", "t", "e">>>>,
            RangeIndex(1),
            <<<<<<"0", "1", "/", "0", "2", "/", "2", "0", "2", "5">>>>>>),
      Table(<<<<"B", "a", "l", "a", "n", "c", "e">>>>,
            RangeIndex(2),
            <<<<<<"1", "0", "0", ".", "0", "0">>>>,
              <<<<"2", "0", "0", ".", "0", "0">>>>>>),
      Table(<<<<"N", "o", "t", "e", "s">>>>,
            RangeIndex(1),
            <<<<<<"P", "O", "S", " ", "p", "u", "r", "c", "h", "a", "s", "e", " ", "a", "t", " ", "s", "h", "o", "p">>>>>>),
      Table(<<<<"D", "a", "t", "e">>, <<"B", "a", "l", "a", "n", "c", "e">>>>,
            RangeIndex(2),
            <<<<NoneCell, NoneCell>>,
              <<<<"0", "2", "/", "0", "2", "/", "2", "0", "2", "5">>, <<"5", "0", ".", "0", "0">>>>>>),
      Table(<<<<"D", "a", "t", "e">>, <<"N", "a", "r", "r", "a", "t", "i", "o", "n">>, <<"D", "e", "b", "i", "t">>, <<"C", "r", "e", "d", "i", "t">>, <<"B", "a", "l", "a", "n", "c", "e">>, <<"R", "e", "f">>>>,
            RangeIndex(2),
            <<<<<<"D", "a", "t", "e">>, <<"D", "e", "s", "c", "r", "i", "p", "t", "i", "o", "n">>, <<"D", "e", "b", "i", "t">>, <<"C", "r", "e", "d", "i", "t">>, <<"B", "a", "l", "a", "n", "c", "e">>, <<"R", "e", "f", "e", "r", "e", "n", "c", "e">>>>,
              <<<<"0", "3", "/", "0", "2", "/", "2", "0", "2", "5">>, <<"T", "r", "a", "n", "s", "f", "e", "r">>, <<"1", "0", ".", "0", "0">>, <<>>, <<"9", "0", ".", "0", "0">>, <<"R", "1">>>>>>),
      Table(<<<<"R", "e", "m", "a", "r", "k">>>>,
            RangeIndex(1),
            <<<<<<>>>>>>),
      Table(<<<<"V", "a", "l", "u", "e">>>>,
            RangeIndex(1),
            <<<<<<"o", "k">>>>>>) }

MergeInit ==
    /\ m_tables \in {<<>>} \cup SeqsUpTo(TableVocabulary, MaxTables)
    /\ m_pc = "init" /\ m_out = NoTable
    /\ DatesIdle /\ PipeIdle /\ StoreIdle

MergeTables ==
    /\ m_pc = "init"
    /\ \E common_columns \in Orderings(CommonColumns(AlignedTables(m_tables))) :
          m_out' = merge_tables(m_tables, common_columns)
    /\ m_pc' = "done"
    /\ UNCHANGED <<m_tables, d_vars, p_vars, s_vars>>

MergeNext == MergeTables

SpecMerge == MergeInit /\ [][MergeNext]_vars

\* no column of one table is matched to a column of another: no shared name after
\* standardising, and no pair of columns scores above the matching threshold
NoCompatibleColumns(tables) ==
    LET aligned == AlignedTables(tables)
    IN  /\ Len(tables) >= 2
        /\ Len(aligned) = Len(tables)
        /\ \A i, j \in DOMAIN aligned :
              i # j =>
                 /\ Range(aligned[i].columns) \cap Range(aligned[j].columns) = {}
                 /\ \A a \in DOMAIN aligned[i].columns :
                       BestMatch(aligned[i], aligned[i].columns[a], aligned[j]) = 0

\* C6: merging two or more non-empty tables that have no compatible columns returns
\* one of the input tables, the one with the most rows, with its column names, row
\* order and cell values unchanged, and never an empty or null result
C6_MergeFallbackLargest ==
    (m_pc = "done" /\ NoCompatibleColumns(m_tables)) =>
        /\ m_out # NoTable
        /\ \E i \in DOMAIN m_tables :
              /\ m_out = m_tables[i]
              /\ \A j \in DOMAIN m_tables : Len(m_tables[j].rows) <= Len(m_tables[i].rows)

\* the tables share some column names but not all of them
SharesOnlySome(tables) ==
    LET aligned == AlignedTables(tables)
    IN  /\ Len(aligned) >= 2
        /\ CommonColumns(aligned) # {}
        /\ \E i \in DOMAIN aligned : Range(aligned[i].columns) # CommonColumns(aligned)

\* row of the merged table comes from row r of table: equal where the table has
\* the column, null where it lacks it
PaddedFrom(merged, row, table, r) ==
    \A j \in DOMAIN merged.columns :
        IF merged.columns[j] \in Range(table.columns)
        THEN row[j] = table.rows[r][ColPos(table, merged.columns[j])]
        ELSE IsNull(row[j])

\* C19: when the tables share only some of their columns, the merged table has the
\* shared columns and every other column of every table, and each of its rows is a
\* row of one table with null in the columns that table lacks
C19_OtherColumnsPadded ==
    (m_pc = "done" /\ SharesOnlySome(m_tables)) =>
        LET aligned == AlignedTables(m_tables)
        IN  /\ m_out # NoTable
            /\ Range(m_out.columns) = UNION {Range(aligned[i].columns) : i \in DOMAIN aligned}
            /\ \A k \in DOMAIN m_out.rows :
                  \E i \in DOMAIN aligned :
                     \E r \in DOMAIN aligned[i].rows :
                        PaddedFrom(m_out, m_out.rows[k], aligned[i], r)

\* the row holds at least 30% of the header keywords
IsHeaderRow(row) ==
    10 * Cardinality({k \in DOMAIN header_keywords :
                        Contains(RowStr(row), header_keywords[k])})
        >= 3 * Len(header_keywords)

\* the rows of all tables in order, each with the table it is from
RECURSIVE AllRows(_, _)
AllRows(tables, i) ==
    IF i > Len(tables) THEN <<>>
    ELSE [r \in DOMAIN tables[i].rows |-> [table |-> i, row |-> r]]
         \o AllRows(tables, i + 1)

\* C20: the merged table holds the rows of the input tables (standardised, their
\* empty rows and columns dropped) in order, less the rows that hold at least 30%
\* of the header keywords: its row count is the sum of theirs minus the header
\* rows, and no other row is lost or duplicated
C20_RowsConserved ==
    (m_pc = "done" /\ Len(m_tables) >= 2 /\ AlignedTables(m_tables) # <<>>) =>
        LET aligned == AlignedTables(m_tables)
            kept == SelectSeq(AllRows(aligned, 1),
                              LAMBDA x : ~IsHeaderRow(aligned[x.table].rows[x.row]))
        IN  /\ m_out # NoTable
            /\ Len(m_out.rows) = Len(kept)
            /\ \A k \in DOMAIN kept :
                  \A j \in DOMAIN m_out.columns :
                     m_out.columns[j] \in Range(aligned[kept[k].table].columns) =>
                        m_out.rows[k][j] =
                            aligned[kept[k].table].rows[kept[k].row]
                                [ColPos(aligned[kept[k].table], m_out.columns[j])]

-----------------------------------------------------------------------------
(* The processing router (processing_router.process_statement_with_router)  *)
(* and the view orchestrator (views.process_statement).  A DataFrame is the *)
(* strategy that produced it, its column names and its number of rows; the  *)
(* blocks are the Textract blocks of one statement: how many TABLE blocks   *)
(* and non-blank LINE blocks they hold and which bank keyword their text    *)
(* carries.                                                                 *)

MaxRows == 2
MaxBlocks == 2

DataFrame(by, columns, rows) == [by |-> by, columns |-> columns, rows |-> rows]
\* pd.DataFrame()
EmptyFrame(by) == DataFrame(by, {}, 0)
IsEmptyFrame(df) == df.rows = 0

\* robust_clean_dataframe's cols
CanonicalColumns ==
    {"date", "raw_date", "value_date", "description", "debit", "credit", "balance",
     "channel", "transaction_reference", "row_issue"}
\* the columns validate_and_flag_dates adds
ValidationColumns ==
    {"date_validation_issue", "date_validation_warning", "date_correction_applied",
     "date_inference_confidence", "date_action_required"}
\* process_tables_directly's expected
ExpectedColumns ==
    {"date", "value_date", "description", "debit", "credit", "balance", "channel",
     "transaction_reference"}
\* the bank parsers' required_columns
RequiredColumns ==
    {"date", "description", "debit", "credit", "balance", "channel",
     "transaction_reference"}
\* extract_combined_table numbers its columns
PositionalColumns == {"0", "1", "2"}

Blocks(tables, lines, keyword) == [tables |-> tables, lines |-> lines, keyword |-> keyword]
NoBlocks(blocks) == blocks.tables = 0 /\ blocks.lines = 0

\* bank_detection.detect_bank_from_textract_blocks
detect_bank_from_textract_blocks(blocks) ==
    IF NoBlocks(blocks) THEN "UNKNOWN" ELSE blocks.keyword

\* bank_registry.BANK_REGISTRY: the codes marked active, and every code
ActiveBanks == {"KUDA", "OPAY"}
RegisteredBanks == {"KUDA", "OPAY", "GTBANK", "ZENITH", "ACCESS", "UBA", "FCMB"}

\* bank_registry.get_processor
get_processor(bank_code) ==
    IF bank_code = "AUTO" THEN "process_tables_directly"
    ELSE IF bank_code \in RegisteredBanks /\ bank_code \in ActiveBanks
         THEN IF bank_code = "KUDA" THEN "process_kuda_statement"
              ELSE "process_opay_statement"
    ELSE "process_tables_directly"

\* textract_utils.extract_all_tables: the number of tables returned when `parsed` of
\* the TABLE blocks could be read; with none, the combined line table is the only one
extract_all_tables(blocks, parsed) ==
    IF NoBlocks(blocks) THEN 0
    ELSE IF parsed > 0 THEN parsed
    ELSE IF blocks.lines > 0 THEN 1
    ELSE 0

\* textract_utils.extract_combined_table: one row for each non-blank line
extract_combined_table(blocks) ==
    IF blocks.lines = 0 THEN EmptyFrame("heuristic")
    ELSE DataFrame("heuristic", PositionalColumns, blocks.lines)

Outcome(raised, df) == [raised |-> raised, df |-> df]

\* direct_processor.process_tables_directly: never raises; an empty frame when no
\* table yields transactions
DirectOutcomes(tables) ==
    {Outcome(FALSE, EmptyFrame("direct"))}
    \cup {Outcome(FALSE, DataFrame("direct", ExpectedColumns, k)) :
             k \in 1..(IF tables > 0 THEN MaxRows ELSE 0)}

\* kuda_processor.process_kuda_statement / opay_processor.process_opay_statement:
\* transactions come from the text lines
ParserOutcomes(blocks) ==
    {Outcome(FALSE, EmptyFrame("bank_parser"))}
    \cup (IF NoBlocks(blocks) THEN {} ELSE {Outcome(TRUE, None)})
    \cup {Outcome(FALSE, DataFrame("bank_parser", RequiredColumns, k)) :
             k \in 1..Min2(blocks.lines, MaxRows)}

\* processor(blocks): the direct processor handed blocks finds no 'df' in them
ProcessorOutcomes(processor, blocks) ==
    IF processor = "process_tables_directly"
    THEN {Outcome(FALSE, EmptyFrame("direct"))}
    ELSE ParserOutcomes(blocks)

\* cleaning_utils.robust_clean_dataframe: the canonical empty frame for no input;
\* otherwise it may raise, and it keeps some of the rows
RobustCleanOutcomes(df_raw) ==
    IF df_raw = None THEN {Outcome(FALSE, DataFrame("", CanonicalColumns, 0))}
    ELSE IF IsEmptyFrame(df_raw)
         THEN {Outcome(FALSE, DataFrame(df_raw.by, CanonicalColumns, 0))}
    ELSE {Outcome(TRUE, None)}
         \cup {Outcome(FALSE, DataFrame(df_raw.by, CanonicalColumns \cup ValidationColumns, k)) :
                  k \in 0..df_raw.rows}

\* the strategy a processor implements
StrategyOf(processor) ==
    IF processor = "process_tables_directly" THEN "direct" ELSE "bank_parser"

Tried(strategy, raised, df) ==
    [strategy |-> strategy,
     outcome |-> IF raised THEN "raised"
                 ELSE IF df = None \/ IsEmptyFrame(df) THEN "empty" ELSE "rows"]

\* process_statement_with_router lines 22-30
SelectProcessor(bank_type, blocks) ==
    IF bank_type # "" /\ bank_type # "AUTO"
    THEN [processor |-> get_processor(bank_type), auto_detected |-> FALSE,
          bank |-> bank_type]
    ELSE [processor |-> get_processor(detect_bank_from_textract_blocks(blocks)),
          auto_detected |-> TRUE,
          bank |-> detect_bank_from_textract_blocks(blocks)]

\* the positions of process_statement_with_router that lie inside its try
InTry(pc) == pc \in {"try", "tables", "raw"}

\* an exception at position pc: the handler returns None, outside the try the
\* exception reaches the caller
RouterExcept(pc) == IF InTry(pc) THEN "done" ELSE "raised"

\* process_statement_with_router lines 62-67
ReturnAsIs(df_clean) == df_clean
RouterResult(df_clean) ==
    IF df_clean # None /\ ~IsEmptyFrame(df_clean) THEN df_clean ELSE None

\* views.process_statement line 459
AlwaysFallback(df_clean) == TRUE
NeedsFallback(df_clean) == IF df_clean = None THEN TRUE ELSE IsEmptyFrame(df_clean)

-----------------------------------------------------------------------------
(* SpecPipeline: one run of the router or of the view orchestrator *)

\* bank_type: "" stands for None
BankTypes == {"", "AUTO", "KUDA", "OPAY", "GTBANK"}
Keywords == {"KUDA", "GTBANK", "UNKNOWN"}
BlockInputs ==
    {b \in [tables : 0..MaxBlocks, lines : 0..MaxBlocks, keyword : Keywords] :
        NoBlocks(b) => b.keyword = "UNKNOWN"}

PipeInit ==
    /\ p_in \in [entry : {"router", "view"}, bank_type : BankTypes, blocks : BlockInputs]
    /\ p_pc = "start" /\ p_proc = None /\ p_tables = 0
    /\ p_df = None /\ p_clean = None /\ p_tried = <<>> /\ p_ret = None
    /\ DatesIdle /\ MergeIdle /\ StoreIdle

\* router lines 22-31: choose the processor (outside the try)
RouterSelectProcessor ==
    /\ p_in.entry = "router" /\ p_pc = "start"
    /\ p_proc' = SelectProcessor(p_in.bank_type, p_in.blocks)
    /\ p_pc' = "try"
    /\ UNCHANGED <<p_in, p_tables, p_df, p_clean, p_tried, p_ret, d_vars, m_vars, s_vars>>

\* router lines 37-44: generic table extraction when the bank was auto-detected
RouterExtractTables ==
    /\ p_in.entry = "router" /\ p_pc = "try" /\ p_proc.auto_detected
    /\ \E parsed \in 0..p_in.blocks.tables :
          LET tables == extract_all_tables(p_in.blocks, parsed)
          IN  /\ p_tables' = tables
              /\ p_pc' = IF tables = 0 THEN "done" ELSE "tables"
    /\ p_ret' = None
    /\ UNCHANGED <<p_in, p_proc, p_df, p_clean, p_tried, d_vars, m_vars, s_vars>>

\* router lines 46-48: df_raw = process_tables_directly(tables)
RouterDirect ==
    /\ p_in.entry = "router" /\ p_pc = "tables"
    /\ \E out \in DirectOutcomes(p_tables) :
          /\ p_df' = out.df
          /\ p_tried' = Append(p_tried, Tried("direct", out.raised, out.df))
    /\ p_pc' = "raw"
    /\ UNCHANGED <<p_in, p_proc, p_tables, p_clean, p_ret, d_vars, m_vars, s_vars>>

\* router lines 49-51 and 69-73: df_raw = processor(blocks) for a pre-marked bank
RouterSpecialized ==
    /\ p_in.entry = "router" /\ p_pc = "try" /\ ~p_proc.auto_detected
    /\ \E out \in ProcessorOutcomes(p_proc.processor, p_in.blocks) :
          /\ p_df' = out.df
          /\ p_tried' = Append(p_tried,
                               Tried(StrategyOf(p_proc.processor), out.raised, out.df))
          /\ p_pc' = IF out.raised THEN RouterExcept(p_pc) ELSE "raw"
    /\ p_ret' = None
    /\ UNCHANGED <<p_in, p_proc, p_tables, p_clean, d_vars, m_vars, s_vars>>

\* router lines 53-73: the empty check, robust_clean_dataframe and the return
RouterClean ==
    /\ p_in.entry = "router" /\ p_pc = "raw"
    /\ IF p_df = None \/ IsEmptyFrame(p_df)
       THEN p_clean' = None /\ p_ret' = None /\ p_pc' = "done"
       ELSE \E out \in RobustCleanOutcomes(p_df) :
               /\ p_clean' = out.df
               /\ p_ret' = IF out.raised THEN None ELSE RouterResult(out.df)
               /\ p_pc' = IF out.raised THEN RouterExcept(p_pc) ELSE "done"
    /\ UNCHANGED <<p_in, p_proc, p_tables, p_df, p_tried, d_vars, m_vars, s_vars>>

\* view lines 419-421: tables = extract_all_tables(blocks); df_clean = None
ViewExtractTables ==
    /\ p_in.entry = "view" /\ p_pc = "start"
    /\ \E parsed \in 0..p_in.blocks.tables :
          LET tables == extract_all_tables(p_in.blocks, parsed)
          IN  /\ p_tables' = tables
              /\ p_pc' = IF tables > 0 THEN "direct" ELSE "check"
    /\ p_clean' = None
    /\ UNCHANGED <<p_in, p_proc, p_df, p_tried, p_ret, d_vars, m_vars, s_vars>>

\* view lines 426-454: the direct processor, then the robust cleaner; an exception
\* leaves df_clean None
ViewDirect ==
    /\ p_in.entry = "view" /\ p_pc = "direct"
    /\ \E out \in DirectOutcomes(p_tables) :
          /\ p_df' = out.df
          /\ IF IsEmptyFrame(out.df)
             THEN /\ p_clean' = None
                  /\ p_tried' = Append(p_tried, Tried("direct", FALSE, None))
             ELSE \E c \in RobustCleanOutcomes(out.df) :
                     /\ p_clean' = c.df
                     /\ p_tried' = Append(p_tried, Tried("direct", c.raised, c.df))
    /\ p_pc' = "check"
    /\ UNCHANGED <<p_in, p_proc, p_tables, p_ret, d_vars, m_vars, s_vars>>

\* view lines 459-477: the combined line table through the robust cleaner; an
\* exception ends the request without saving and without an error message
ViewFallback ==
    /\ p_in.entry = "view" /\ p_pc = "check" /\ NeedsFallback(p_clean)
    /\ LET df_raw == extract_combined_table(p_in.blocks)
       IN  /\ p_df' = df_raw
           /\ IF IsEmptyFrame(df_raw)
              THEN /\ p_clean' = None
                   /\ p_tried' = Append(p_tried, Tried("heuristic", FALSE, None))
                   /\ p_pc' = "save" /\ p_ret' = p_ret
              ELSE \E c \in RobustCleanOutcomes(df_raw) :
                      /\ p_clean' = c.df
                      /\ p_tried' = Append(p_tried, Tried("heuristic", c.raised, c.df))
                      /\ p_pc' = IF c.raised THEN "done" ELSE "save"
                      /\ p_ret' = IF c.raised THEN [kind |-> "redirect", df |-> None]
                                  ELSE p_ret
    /\ UNCHANGED <<p_in, p_proc, p_tables, d_vars, m_vars, s_vars>>

\* view lines 482-493: save the transactions, or record that nothing was extracted
ViewSave ==
    /\ p_in.entry = "view"
    /\ IF p_pc = "check" THEN ~NeedsFallback(p_clean) ELSE p_pc = "save"
    /\ IF p_clean # None /\ ~IsEmptyFrame(p_clean)
       THEN \E saved \in BOOLEAN :
               p_ret' = [kind |-> IF saved THEN "saved" ELSE "save_failed",
                         df |-> p_clean]
       ELSE p_ret' = [kind |-> "error_message", df |-> None]
    /\ p_pc' = "done"
    /\ UNCHANGED <<p_in, p_proc, p_tables, p_df, p_clean, p_tried, d_vars, m_vars, s_vars>>

PipeNext ==
    \/ RouterSelectProcessor \/ RouterExtractTables \/ RouterDirect
    \/ RouterSpecialized \/ RouterClean
    \/ ViewExtractTables \/ ViewDirect \/ ViewFallback \/ ViewSave

SpecPipeline == PipeInit /\ [][PipeNext]_vars

RouterReturned == p_in # None /\ p_in.entry = "router" /\ p_pc \in {"done", "raised"}

StrategyOrder == <<"bank_parser", "ai", "direct", "heuristic">>
PositionOf(strategy) == CHOOSE k \in 1..4 : StrategyOrder[k] = strategy
\* the statement's institution is identified, by the user or by the keyword sniff
InstitutionKnown ==
    \/ p_in.bank_type \in ActiveBanks
    \/ (p_in.bank_type \in {"", "AUTO"}
           /\ detect_bank_from_textract_blocks(p_in.blocks) \in ActiveBanks)
FailedBefore(strategy, i) ==
    \E j \in 1..(i - 1) :
        p_tried[j].strategy = strategy /\ p_tried[j].outcome \in {"raised", "empty"}
\* the table the run ended with
FinalTable ==
    IF p_in.entry = "router" THEN p_ret
    ELSE IF p_ret # None /\ p_ret.kind \in {"saved", "save_failed"} THEN p_ret.df
    ELSE None

Strategies == [i \in DOMAIN p_tried |-> p_tried[i].strategy]

-----------------------------------------------------------------------------
(* The correction-rule store (banklytik_knowledge/deepseek_knowledge.json),  *)
(* the learning data file (learning/date_corrections.json) and the knowledge *)
(* cache (knowledge_loader._knowledge_data).  Every operation reads the      *)
(* whole file, changes its copy and writes the whole file back; other        *)
(* processes run between its steps.                                          *)

MaxBatch == 2

Writers == {"w1", "w2"}
Procs == Writers \cup {"run"}

RuleRec(pattern, replace) == [pattern |-> pattern, replace |-> replace]
RulePool == {RuleRec("Fev", "Feb"), RuleRec("O", "0"), RuleRec("l", "")}
\* the suggestions file: a list of rules
Batches == SeqsUpTo(RulePool, MaxBatch)
\* the examples the files of the "dates" section hold
DateExamples == <<"24Feb 2025", "Feb 2025">>

\* deepseek_adapter.merge_suggestions_into_knowledge lines 88-100: append each
\* suggestion that is not yet in the list; [data, new_rules]
RECURSIVE MergeSuggestions(_, _, _)
MergeSuggestions(knowledge_data, new_rules, suggestions) ==
    IF suggestions = <<>> THEN [data |-> knowledge_data, new_rules |-> new_rules]
    ELSE IF Head(suggestions) \in Range(knowledge_data)
         THEN MergeSuggestions(knowledge_data, new_rules, Tail(suggestions))
    ELSE MergeSuggestions(Append(knowledge_data, Head(suggestions)),
                          Append(new_rules, Head(suggestions)), Tail(suggestions))

\* deepseek_version_manager.validate_new_rules lines 85-103: the complete rules that
\* are not in the current knowledge
IsValidRule(current, rule) ==
    /\ rule.pattern # "" /\ rule.replace # ""
    /\ rule \notin Range(current)
validate_new_rules(current, new_rules) ==
    SelectSeq(new_rules, LAMBDA rule : IsValidRule(current, rule))

\* deepseek_version_manager.merge_validated_rules lines 118-119
ExtendRules(data, valid_rules) == data \o valid_rules

\* knowledge_loader.reload_knowledge line 41
EmptyKnowledge == [knowledge |-> <<>>, dates |-> <<>>]
\* knowledge_loader.reload_knowledge line 58: setdefault(section, []).extend(content)
ExtendSection(cache, section, content) ==
    [cache EXCEPT ![section] = cache[section] \o content]
\* knowledge_loader.get_examples
get_examples(cache, section) == cache[section]

IdleProc == [op |-> "", pc |-> "idle", batch |-> <<>>, data |-> <<>>, appended |-> <<>>]
At(p, op, pc) == s_proc[p].op = op /\ s_proc[p].pc = pc

-----------------------------------------------------------------------------
(* SpecStore: two writers and one reading run, interleaved step by step *)

StoreInit ==
    /\ s_file \in {<<>>, <<RuleRec("Fev", "Feb")>>}
    /\ s_learn = <<>>
    /\ s_cache = [knowledge |-> s_file, dates |-> DateExamples]
    /\ s_prev = s_file
    /\ s_proc = [p \in Procs |-> IdleProc]
    /\ s_run = [snapshot |-> None, seen |-> <<>>]
    /\ DatesIdle /\ MergeIdle /\ PipeIdle

\* merge_suggestions_into_knowledge lines 59-86: read the suggestions and the
\* knowledge file
MsLoad(p) ==
    /\ s_proc[p].pc = "idle"
    /\ \E suggestions \in Batches :
          s_proc' = [s_proc EXCEPT ![p] = [op |-> "merge_suggestions", pc |-> "write",
                                           batch |-> suggestions, data |-> s_file,
                                           appended |-> <<>>]]
    /\ UNCHANGED <<s_file, s_learn, s_cache, s_prev, s_run, d_vars, m_vars, p_vars>>

\* merge_suggestions_into_knowledge lines 88-110: deduplicate, and write the file
\* back when there are new rules
MsWrite(p) ==
    /\ At(p, "merge_suggestions", "write")
    /\ LET merged == MergeSuggestions(s_proc[p].data, <<>>, s_proc[p].batch)
       IN  IF merged.new_rules = <<>>
           THEN /\ s_proc' = [s_proc EXCEPT ![p].pc = "done"]
                /\ UNCHANGED <<s_file, s_prev>>
           ELSE /\ s_file' = merged.data
                /\ s_prev' = s_file
                /\ s_proc' = [s_proc EXCEPT ![p].pc = "reload",
                                            ![p].appended = merged.new_rules]
    /\ UNCHANGED <<s_learn, s_cache, s_run, d_vars, m_vars, p_vars>>

\* validate_new_rules: read the suggestions and the knowledge file, keep the valid
\* new rules
VrValidate(p) ==
    /\ s_proc[p].pc = "idle"
    /\ \E new_rules \in Batches :
          LET valid_rules == validate_new_rules(s_file, new_rules)
          IN  s_proc' = [s_proc EXCEPT ![p] =
                            [op |-> "merge_validated",
                             pc |-> IF valid_rules = <<>> THEN "done" ELSE "read",
                             batch |-> valid_rules, data |-> <<>>, appended |-> <<>>]]
    /\ UNCHANGED <<s_file, s_learn, s_cache, s_prev, s_run, d_vars, m_vars, p_vars>>

\* merge_validated_rules lines 112-116: read the knowledge file
MvRead(p) ==
    /\ At(p, "merge_validated", "read")
    /\ s_proc' = [s_proc EXCEPT ![p].pc = "write", ![p].data = s_file]
    /\ UNCHANGED <<s_file, s_learn, s_cache, s_prev, s_run, d_vars, m_vars, p_vars>>

\* merge_validated_rules lines 118-124: extend the list and write the file back
MvWrite(p) ==
    /\ At(p, "merge_validated", "write")
    /\ s_file' = ExtendRules(s_proc[p].data, s_proc[p].batch)
    /\ s_prev' = s_file
    /\ s_proc' = [s_proc EXCEPT ![p].pc = "reload", ![p].appended = s_proc[p].batch]
    /\ UNCHANGED <<s_learn, s_cache, s_run, d_vars, m_vars, p_vars>>

\* DateLearningEngine.__init__ / load_learning_data: read the correction history
LeLoad(p) ==
    /\ s_proc[p].pc = "idle"
    /\ s_proc' = [s_proc EXCEPT ![p] = [op |-> "learning", pc |-> "save",
                                        batch |-> <<p>>, data |-> s_learn,
                                        appended |-> <<>>]]
    /\ UNCHANGED <<s_file, s_learn, s_cache, s_prev, s_run, d_vars, m_vars, p_vars>>

\* record_correction and save_learning_data: append the correction to the history
\* that was read and write the file back
LeSave(p) ==
    /\ At(p, "learning", "save")
    /\ s_learn' = s_proc[p].data \o s_proc[p].batch
    /\ s_proc' = [s_proc EXCEPT ![p].pc = "done", ![p].appended = s_proc[p].batch]
    /\ UNCHANGED <<s_file, s_cache, s_prev, s_run, d_vars, m_vars, p_vars>>

\* process_tables_directly lines 97-102: a statement-processing run begins by
\* reloading the knowledge
RunStart ==
    /\ s_proc["run"].pc = "idle"
    /\ s_proc' = [s_proc EXCEPT !["run"].op = "run", !["run"].pc = "reload"]
    /\ UNCHANGED <<s_file, s_learn, s_cache, s_prev, s_run, d_vars, m_vars, p_vars>>

\* reload_knowledge line 41: the cache is replaced by an empty one
ReloadReset(p) ==
    /\ s_proc[p].pc = "reload"
    /\ s_cache' = EmptyKnowledge
    /\ s_proc' = [s_proc EXCEPT ![p].pc = "load_knowledge"]
    /\ UNCHANGED <<s_file, s_learn, s_prev, s_run, d_vars, m_vars, p_vars>>

\* reload_knowledge lines 44-58 for deepseek_knowledge.json
ReloadKnowledgeFile(p) ==
    /\ s_proc[p].pc = "load_knowledge"
    /\ s_cache' = ExtendSection(s_cache, "knowledge", s_file)
    /\ s_proc' = [s_proc EXCEPT ![p].pc = "load_dates"]
    /\ UNCHANGED <<s_file, s_learn, s_prev, s_run, d_vars, m_vars, p_vars>>

\* reload_knowledge lines 44-58 for the files of the dates section; for the run
\* this ends the reload: what is loaded now is what the run starts with
ReloadDatesFiles(p) ==
    /\ s_proc[p].pc = "load_dates"
    /\ s_cache' = ExtendSection(s_cache, "dates", DateExamples)
    /\ s_proc' = [s_proc EXCEPT ![p].pc = IF p = "run" THEN "table1" ELSE "done"]
    /\ s_run' = IF p = "run"
                THEN [s_run EXCEPT !.snapshot = get_examples(s_cache', "dates")]
                ELSE s_run
    /\ UNCHANGED <<s_file, s_learn, s_prev, d_vars, m_vars, p_vars>>

\* header_detector.detect_headers_ai line 61, once for each table of the run
RunDetectHeaders ==
    /\ s_proc["run"].pc \in {"table1", "table2"}
    /\ s_run' = [s_run EXCEPT !.seen = Append(@, get_examples(s_cache, "dates"))]
    /\ s_proc' = [s_proc EXCEPT !["run"].pc =
                     IF s_proc["run"].pc = "table1" THEN "table2" ELSE "done"]
    /\ UNCHANGED <<s_file, s_learn, s_cache, s_prev, d_vars, m_vars, p_vars>>

StoreNext ==
    \/ \E p \in Writers :
          \/ MsLoad(p) \/ MsWrite(p)
          \/ VrValidate(p) \/ MvRead(p) \/ MvWrite(p)
          \/ LeLoad(p) \/ LeSave(p)
    \/ RunStart
    \/ \E p \in Procs : ReloadReset(p) \/ ReloadKnowledgeFile(p) \/ ReloadDatesFiles(p)
    \/ RunDetectHeaders

SpecStore == StoreInit /\ [][StoreNext]_vars

IsPrefix(a, b) == Len(a) <= Len(b) /\ SubSeq(b, 1, Len(a)) = a
NoDuplicates(seq) == \A i, j \in DOMAIN seq : i # j => seq[i] # seq[j]
WritersDone == \A p \in Writers : s_proc[p].pc = "done"

\* C8: when two processes have appended to the rule store or to the learning data
\* file, with their read and write steps interleaved in any order, the final file
\* holds every entry either of them appended
C8_NoLostAppend ==
    WritersDone =>
        \A p \in Writers : \A i \in DOMAIN s_proc[p].appended :
            IF s_proc[p].op = "learning"
            THEN s_proc[p].appended[i] \in Range(s_learn)
            ELSE s_proc[p].appended[i] \in Range(s_file)

\* C9: every write to the rule store keeps the rules that were there, in their order
\* (the list before the write is a prefix of the list after it), and the store never
\* holds two equal rules
C9_AppendOnlyNoDuplicates ==
    /\ IsPrefix(s_prev, s_file)
    /\ NoDuplicates(s_file)

\* C10: everything a run reads from the knowledge cache after its start is what it
\* loaded at its start, whatever the writers append or reload meanwhile
C10_ConsistentSnapshot ==
    \A i \in DOMAIN s_run.seen : s_run.seen[i] = s_run.snapshot

-----------------------------------------------------------------------------
(* AI-assisted column detection: deepseek_column_detection and              *)
(* deepseek_stage2_cleaning.  Column names and roles are strings of         *)
(* characters; a frame is its column names and its number of rows.          *)

r_date == <<"d", "a", "t", "e">>
r_value_date == <<"v", "a", "l", "u", "e", "_", "d", "a", "t", "e">>
r_description == <<"d", "e", "s", "c", "r", "i", "p", "t", "i", "o", "n">>
r_debit == <<"d", "e", "b", "i", "t">>
r_credit == <<"c", "r", "e", "d", "i", "t">>
r_debit_credit == r_debit \o <<"_">> \o r_credit
r_balance == <<"b", "a", "l", "a", "n", "c", "e">>
r_channel == <<"c", "h", "a", "n", "n", "e", "l">>
r_transaction_reference ==
    <<"t", "r", "a", "n", "s", "a", "c", "t", "i", "o", "n", "_",
      "r", "e", "f", "e", "r", "e", "n", "c", "e">>
r_other == <<"o", "t", "h", "e", "r">>

\* the canonical roles the prompt asks for
CanonicalRoles ==
    {r_date, r_value_date, r_description, r_debit, r_credit, r_debit_credit,
     r_balance, r_channel, r_transaction_reference, r_other}

\* run_deepseek_stage2_cleaning: keep
RecognizedColumns ==
    <<r_date, r_value_date, r_description, r_debit_credit, r_balance, r_channel,
      r_transaction_reference>>

\* run_deepseek_stage2_cleaning: preferred_cols
preferred_cols ==
    <<r_date, r_value_date, r_description, r_debit, r_credit, r_balance, r_channel,
      r_transaction_reference>>

\* a JSON value the service may answer with; a member of an object is TRUE when
\* the object has it
Member(items) == [missing |-> FALSE, items |-> items]
Missing == [missing |-> TRUE, items |-> <<>>]
NotAnObject == [type |-> "string"]
TableMeta(page, original_header, column_mapping) ==
    [type |-> "object", page |-> page, original_header |-> original_header,
     column_mapping |-> column_mapping]
Stage1Object(pages, tables, summary) ==
    [type |-> "object", transaction_table_pages |-> pages, tables |-> tables,
     reasoning_summary |-> summary]

\* the schema of SYSTEM_INSTRUCTIONS: one object with the three members, every
\* table an object with page, original_header and a column_mapping onto
\* canonical roles
WellFormedTable(table_meta) ==
    /\ table_meta.type = "object"
    /\ table_meta.page
    /\ table_meta.original_header
    /\ ~table_meta.column_mapping.missing
    /\ table_meta.column_mapping.items # <<>>
    /\ \A i \in DOMAIN table_meta.column_mapping.items :
          table_meta.column_mapping.items[i][2] \in CanonicalRoles
WellFormedMapping(value) ==
    /\ value.type = "object"
    /\ value.transaction_table_pages
    /\ value.reasoning_summary
    /\ ~value.tables.missing
    /\ value.tables.items # <<>>
    /\ \A i \in DOMAIN value.tables.items : WellFormedTable(value.tables.items[i])

\* a response text: the JSON value alone, the value inside prose, or no JSON
\* value at all
Response(kind, value) == [kind |-> kind, value |-> value]
\* _extract_json_object_from_text: json.loads of the text, else of the first
\* balanced {...} of the text, else ValueError
_extract_json_object_from_text(response) ==
    IF response.kind = "json" \/ (response.kind = "prose" /\ response.value.type = "object")
    THEN [raised |-> FALSE, value |-> response.value]
    ELSE [raised |-> TRUE, value |-> None]

\* the response carries a JSON value and the value follows the schema
WellFormedResponse(response) ==
    /\ ~_extract_json_object_from_text(response).raised
    /\ WellFormedMapping(_extract_json_object_from_text(response).value)

Frame(columns, rows) == [columns |-> columns, rows |-> rows]

\* the role of the last mapping entry whose raw name occurs in the column name
\* ('renamed[actual_col] = normalized'), else the stripped column name
RECURSIVE RenamedAs(_, _, _)
RenamedAs(actual_col, column_mapping, i) ==
    IF i = 0 THEN Strip(actual_col)
    ELSE IF Contains(LowerStr(Strip(actual_col)), LowerStr(column_mapping[i][1]))
         THEN column_mapping[i][2]
         ELSE RenamedAs(actual_col, column_mapping, i - 1)

\* the frame one table_meta yields: columns renamed, recognized ones kept in the
\* order of the keep list
MapTable(textract_df, column_mapping) ==
    LET renamed == [i \in DOMAIN textract_df.columns |->
                        RenamedAs(textract_df.columns[i], column_mapping,
                                  Len(column_mapping))]
    IN  Frame(SelectSeq(RecognizedColumns, LAMBDA c : c \in Range(renamed)),
              textract_df.rows)

Stage2None == [kind |-> "none"]
Stage2Raised == [kind |-> "raised"]
Stage2Frame(columns, rows, mapped) ==
    [kind |-> "frame", columns |-> columns, rows |-> rows, mapped |-> mapped]

\* the frames of the tables whose column_mapping is not empty; a table without
\* one is skipped ('mapping = table_meta.get("column_mapping", {})', 'continue')
RECURSIVE AllFrames(_, _, _)
AllFrames(textract_df, tables, i) ==
    IF i > Len(tables) THEN <<>>
    ELSE (IF tables[i].column_mapping.items # <<>>
          THEN <<MapTable(textract_df, tables[i].column_mapping.items)>>
          ELSE <<>>)
         \o AllFrames(textract_df, tables, i + 1)

RECURSIVE SumRows(_)
SumRows(frames) ==
    IF frames = <<>> THEN 0 ELSE frames[1].rows + SumRows(Tail(frames))

\* run_deepseek_stage2_cleaning.  table_meta.get on a table that is no object
\* raises AttributeError; dropna(subset=["date", "description"]) raises KeyError
\* unless the frame has both columns.  normalize_description leaves no null
\* description, so dropna drops no row.
run_deepseek_stage2_cleaning(textract_df, deepseek_stage1_result) ==
    IF deepseek_stage1_result.type # "object" THEN Stage2None
    ELSE IF deepseek_stage1_result.tables.missing THEN Stage2None
    ELSE IF deepseek_stage1_result.tables.items = <<>> THEN Stage2None
    ELSE LET tables == deepseek_stage1_result.tables.items
         IN  IF \E i \in DOMAIN tables : tables[i].type # "object" THEN Stage2Raised
             ELSE LET all_frames == AllFrames(textract_df, tables, 1)
                      columns == UNION {Range(all_frames[i].columns) :
                                            i \in DOMAIN all_frames}
                  IN  IF all_frames = <<>> THEN Stage2None
                      ELSE IF ~({r_date, r_description} \subseteq columns)
                           THEN Stage2Raised
                      ELSE Stage2Frame(preferred_cols, SumRows(all_frames), columns)

\* what run_column_detection_with_deepseek returns
ErrorDict(error) == [kind |-> "error", error |-> error]

\* run_column_detection_with_deepseek.  The module defines no logger: each
\* branch after stage 2 (success, empty result, stage-2 exception, fallback)
\* first evaluates logger.debug or logger.warning, the NameError leaves the
\* inner handler and the outer except returns the error dict.
run_column_detection_with_deepseek(df_raw, call) ==
    IF call.raised THEN ErrorDict("DeepSeek pipeline failed")
    ELSE LET parsed == _extract_json_object_from_text(call.response)
         IN  IF parsed.raised THEN ErrorDict("Failed to parse DeepSeek JSON")
             ELSE IF parsed.value.type # "object"
                  THEN ErrorDict("DeepSeek returned non-JSON object.")
             ELSE ErrorDict("DeepSeek pipeline failed")

c_trans_date == <<"T", "r", "a", "n", "s", " ", "D", "a", "t", "e">>
c_narration == <<"N", "a", "r", "r", "a", "t", "i", "o", "n">>
c_date == <<"D", "a", "t", "e">>
c_details == <<"D", "e", "t", "a", "i", "l", "s">>
r_narrative == <<"n", "a", "r", "r", "a", "t", "i", "v", "e">>

\* raw frames: no two columns of a frame contain the same raw name, so no
\* mapping below gives one frame two columns of the same role
TextractFrames ==
    {Frame(<<>>, 0)}
        \cup {Frame(<<c_trans_date, c_narration, r_balance>>, n) : n \in 1..MaxRows}
        \cup {Frame(<<c_date, c_details>>, n) : n \in 1..MaxRows}

ColumnMappings ==
    {Missing, Member(<<>>),
     Member(<<<<c_date, r_date>>>>),
     Member(<<<<c_date, r_date>>, <<c_narration, r_description>>>>),
     Member(<<<<c_date, r_date>>, <<c_details, r_description>>>>),
     Member(<<<<c_date, r_date>>, <<c_narration, r_narrative>>>>)}

TableMetas ==
    {TableMeta(page, page, column_mapping) :
        page \in BOOLEAN, column_mapping \in ColumnMappings}
        \cup {NotAnObject}

Stage1Values ==
    {[type |-> "array"], [type |-> "number"]}
        \cup {Stage1Object(members, tables, members) :
                members \in BOOLEAN,
                tables \in {Missing, Member(<<>>)}
                            \cup {Member(items) : items \in SeqsUpTo(TableMetas, MaxTables)}}

Responses ==
    {Response("garbage", [type |-> "none"])}
        \cup {Response(kind, value) : kind \in {"json", "prose"}, value \in Stage1Values}

AIInit ==
    /\ d_raw \in Responses
    /\ d_ctx \in TextractFrames
    /\ d_parsed = None /\ d_rules = <<>> /\ d_op = "init" /\ d_out = None
    /\ MergeIdle /\ PipeIdle /\ StoreIdle

\* run_column_detection_with_deepseek on the response, or on a failed call
RunColumnDetection ==
    /\ d_op = "init"
    /\ \E raised \in BOOLEAN :
          d_out' = run_column_detection_with_deepseek(
                       d_ctx, [raised |-> raised, response |-> d_raw])
    /\ d_op' = "column_detection"
    /\ UNCHANGED <<d_raw, d_parsed, d_ctx, d_rules, m_vars, p_vars, s_vars>>

\* run_deepseek_stage2_cleaning on the parsed response
RunStage2Cleaning ==
    /\ d_op = "init"
    /\ ~_extract_json_object_from_text(d_raw).raised
    /\ d_out' = run_deepseek_stage2_cleaning(
                    d_ctx, _extract_json_object_from_text(d_raw).value)
    /\ d_op' = "stage2"
    /\ UNCHANGED <<d_raw, d_parsed, d_ctx, d_rules, m_vars, p_vars, s_vars>>

AINext == RunColumnDetection \/ RunStage2Cleaning

SpecAI == AIInit /\ [][AINext]_vars

\* C17: a response that is not a complete, well-formed mapping gives no table:
\* the AI step returns nothing, an error or raises, and no column of the data is
\* renamed by it
C17_MalformedResponseRejected ==
    (d_op \in {"column_detection", "stage2"} /\ ~WellFormedResponse(d_raw))
        => d_out.kind # "frame"

-----------------------------------------------------------------------------
(* textract_utils: the reconstruction of each TABLE block from its CELL      *)
(* blocks.  A table block is the sequence of its cells, a cell its two      *)
(* indices as the block carries them and its text.                          *)

Index(n) == [kind |-> "int", val |-> n]
\* the key is missing, the value is null, the value is one int() rejects
AbsentIndex == [kind |-> "absent", val |-> 0]
NullIndex == [kind |-> "null", val |-> 0]
TextIndex == [kind |-> "text", val |-> 0]

CellBlock(row, col, text) == [RowIndex |-> row, ColumnIndex |-> col, Text |-> text]

\* cell.get("RowIndex") or cell.get("RowIndex", 0): a missing key gives 0
GetIndex(ix) == IF ix.kind = "absent" THEN Index(0) ELSE ix

\* 'if row_index is None or col_index is None: continue'
CellSkipped(cell) ==
    GetIndex(cell.RowIndex).kind = "null" \/ GetIndex(cell.ColumnIndex).kind = "null"

\* int(row_index), int(col_index) raise ValueError
CellRaises(cell) ==
    /\ ~CellSkipped(cell)
    /\ GetIndex(cell.RowIndex).kind = "text" \/ GetIndex(cell.ColumnIndex).kind = "text"

SetMax(S) == CHOOSE x \in S : \A y \in S : y <= x

\* _table_block_to_matrix: the grid of the cells by index, rows 1..max_row and
\* columns 1..max_col, "" where no cell is; a later cell overwrites an earlier one
_table_block_to_matrix(cell_blocks) ==
    IF \E i \in DOMAIN cell_blocks : CellRaises(cell_blocks[i])
    THEN [raised |-> TRUE, matrix |-> <<>>]
    ELSE LET kept == {i \in DOMAIN cell_blocks : ~CellSkipped(cell_blocks[i])}
             row_index(i) == GetIndex(cell_blocks[i].RowIndex).val
             col_index(i) == GetIndex(cell_blocks[i].ColumnIndex).val
             max_row == SetMax({0} \cup {row_index(i) : i \in kept})
             max_col == SetMax({0} \cup {col_index(i) : i \in kept})
             at(r, c) == {i \in kept : row_index(i) = r /\ col_index(i) = c}
         IN  [raised |-> FALSE,
              matrix |-> [r \in 1..max_row |->
                            [c \in 1..max_col |->
                                IF at(r, c) = {} THEN ""
                                ELSE cell_blocks[SetMax(at(r, c))].Text]]]

\* table_matrix_to_dataframe: fully empty rows and columns dropped, the columns
\* named by their position in the matrix
table_matrix_to_dataframe(matrix) ==
    LET rows == SelectSeq(matrix, LAMBDA row : \E c \in DOMAIN row : row[c] # "")
        nonempty_cols ==
            IF rows = <<>> THEN <<>>
            ELSE SelectSeq([c \in 1..Len(rows[1]) |-> c],
                           LAMBDA c : \E r \in DOMAIN rows : rows[r][c] # "")
    IN  IF matrix = <<>> \/ nonempty_cols = <<>>
        THEN [columns |-> <<>>, rows |-> <<>>]
        ELSE [columns |-> [k \in DOMAIN nonempty_cols |-> nonempty_cols[k] - 1],
              rows |-> [r \in DOMAIN rows |->
                           [k \in DOMAIN nonempty_cols |-> rows[r][nonempty_cols[k]]]]]

\* one entry of the list extract_all_tables returns; raw_table_block is the
\* position of the TABLE block in the input, 0 for the combined table
TableEntry(table_id, raw_table_block, df) ==
    [table_id |-> table_id, raw_table_block |-> raw_table_block, df |-> df]

\* the loop over table_blocks: a block whose reconstruction raises is passed over
RECURSIVE ParsedTables(_, _, _)
ParsedTables(table_blocks, i, table_counter) ==
    IF i > Len(table_blocks) THEN <<>>
    ELSE LET m == _table_block_to_matrix(table_blocks[i])
         IN  IF m.raised THEN ParsedTables(table_blocks, i + 1, table_counter)
             ELSE <<TableEntry(table_counter + 1, i, table_matrix_to_dataframe(m.matrix))>>
                  \o ParsedTables(table_blocks, i + 1, table_counter + 1)

\* the loop if the first failure ended it
RECURSIVE ParsedUntilFailure(_, _)
ParsedUntilFailure(table_blocks, i) ==
    IF i > Len(table_blocks) \/ _table_block_to_matrix(table_blocks[i]).raised THEN <<>>
    ELSE <<TableEntry(i, i, table_matrix_to_dataframe(
                                _table_block_to_matrix(table_blocks[i]).matrix))>>
         \o ParsedUntilFailure(table_blocks, i + 1)

\* the table of the LINE blocks, one row for each line
CombinedTable(lines) ==
    TableEntry(1, 0, [columns |-> <<0>>, rows |-> [r \in 1..lines |-> <<"line">>]])

ExtractUntilFailure(table_blocks, lines) ==
    LET tables == ParsedUntilFailure(table_blocks, 1)
    IN  IF tables = <<>> /\ lines > 0 THEN <<CombinedTable(lines)>> ELSE tables

\* extract_all_tables of blocks that hold these TABLE blocks and `lines` LINE
\* blocks: the parsed tables, or the combined table when there is none
ExtractAllTables(table_blocks, lines) ==
    LET tables == ParsedTables(table_blocks, 1, 0)
    IN  IF tables = <<>> /\ lines > 0 THEN <<CombinedTable(lines)>> ELSE tables

MaxRegions == 2
MaxLines == 1

HeaderCell == CellBlock(Index(1), Index(1), "h")
OddCells ==
    {CellBlock(row, col, "a") :
        row \in {Index(1), Index(2), AbsentIndex, NullIndex, TextIndex},
        col \in {Index(1), Index(2), AbsentIndex}}
TableBlocks ==
    {<<HeaderCell>>} \cup {<<c>> : c \in OddCells} \cup {<<HeaderCell, c>> : c \in OddCells}

RegionsInit ==
    /\ d_raw \in SeqsUpTo(TableBlocks, MaxRegions)
    /\ d_ctx \in 0..MaxLines
    /\ d_parsed = None /\ d_rules = <<>> /\ d_op = "init" /\ d_out = None
    /\ MergeIdle /\ PipeIdle /\ StoreIdle

ExtractTables ==
    /\ d_op = "init"
    /\ d_out' = ExtractAllTables(d_raw, d_ctx)
    /\ d_op' = "extract_tables"
    /\ UNCHANGED <<d_raw, d_parsed, d_ctx, d_rules, m_vars, p_vars, s_vars>>

RegionsNext == ExtractTables

SpecRegions == RegionsInit /\ [][RegionsNext]_vars

\* every cell of the block carries both indices as numbers
WellFormedRegion(cell_blocks) ==
    \A i \in DOMAIN cell_blocks :
        cell_blocks[i].RowIndex.kind = "int" /\ cell_blocks[i].ColumnIndex.kind = "int"

\* the positions, in order, of the blocks that satisfy P
Positions(table_blocks, P(_)) ==
    SelectSeq([i \in DOMAIN table_blocks |-> i], LAMBDA i : P(table_blocks[i]))

\* the blocks the returned tables were built from, the combined table left out
ReturnedBlocks ==
    LET parsed == SelectSeq(d_out, LAMBDA t : t.raw_table_block # 0)
    IN  [k \in DOMAIN parsed |-> parsed[k].raw_table_block]

\* C18: a table block with a cell that lacks an index, or whose reconstruction
\* raises, is skipped, and the tables returned are exactly the well-formed blocks
\* in their original order
C18_MalformedRegionSkipped ==
    d_op = "extract_tables" => ReturnedBlocks = Positions(d_raw, WellFormedRegion)

Reconstructs(cell_blocks) == ~_table_block_to_matrix(cell_blocks).raised
HasBothIndices(cell) ==
    GetIndex(cell.RowIndex).val >= 1 /\ GetIndex(cell.ColumnIndex).val >= 1

\* C18 (amended): only a block whose reconstruction raises is skipped.  The tables
\* returned are the other blocks in their original order, numbered from 1, each
\* built from its own cells alone; a cell without a row or column index is left
\* out of its table and the table is still returned with its other cells.
C18_RaisingRegionSkipped ==
    d_op = "extract_tables" =>
        /\ ReturnedBlocks = Positions(d_raw, Reconstructs)
        /\ \A k \in DOMAIN d_out :
              /\ d_out[k].table_id = k
              /\ d_out[k].raw_table_block # 0 =>
                    LET cell_blocks == d_raw[d_out[k].raw_table_block]
                    IN  d_out[k].df =
                            table_matrix_to_dataframe(
                                _table_block_to_matrix(
                                    SelectSeq(cell_blocks, HasBothIndices)).matrix)
        /\ (ReturnedBlocks = <<>> /\ d_ctx > 0) => d_out = <<CombinedTable(d_ctx)>>

\* a block that raises comes first, a block with a cell that has no row index
\* second, and the second is returned as table 1 without that cell
C18_Witness ==
    /\ d_op = "extract_tables"
    /\ Len(d_raw) = 2
    /\ ~Reconstructs(d_raw[1])
    /\ d_raw[2] = <<HeaderCell, CellBlock(AbsentIndex, Index(2), "a")>>
    /\ d_out = <<TableEntry(1, 2, [columns |-> <<0>>, rows |-> <<<<"h">>>>])>>

-----------------------------------------------------------------------------
(* direct_processor: header detection and the positional fallback headers   *)
(* of process_tables_directly.  A raw table is its first row, a number of   *)
(* further filler columns and its number of rows.                           *)

RECURSIVE JoinSpace(_)
JoinSpace(cells) ==
    IF cells = <<>> THEN <<>>
    ELSE IF Len(cells) = 1 THEN cells[1]
    ELSE cells[1] \o <<" ">> \o JoinSpace(Tail(cells))

header_indicators ==
    << <<"t", "r", "a", "n", "s">>,
       <<"d", "a", "t", "e">>,
       <<"d", "e", "s", "c", "r", "i", "p", "t", "i", "o", "n">>,
       <<"d", "e", "b", "i", "t">>,
       <<"c", "r", "e", "d", "i", "t">>,
       <<"b", "a", "l", "a", "n", "c", "e">>,
       <<"v", "a", "l", "u", "e", " ", "d", "a", "t", "e">> >>

known_headers ==
    <<"Trans. Time", "Value Date", "Description", "Debit/Credit(W)", "Balance(N)",
      "Channel", "Transaction Reference">>

FillerCell == <<"x">>
RawTable(first, extra, nrows) == [first |-> first, extra |-> extra, nrows |-> nrows]
FirstRow(df) == df.first \o [k \in 1..df.extra |-> FillerCell]
NCols(df) == Len(df.first) + df.extra

\* detect_table_structure
detect_table_structure(df) ==
    IF df.nrows = 0 \/ NCols(df) = 0 THEN "empty"
    ELSE LET first_row_str == JoinSpace([k \in 1..NCols(df) |-> LowerStr(FirstRow(df)[k])])
         IN  IF \E h \in DOMAIN header_indicators :
                    Contains(first_row_str, header_indicators[h])
             THEN "with_headers" ELSE "data_only"

\* the report of one table in process_tables_directly, up to the labelling of its
\* columns.  'df_table.columns = assigned' raises ValueError when the table has
\* more columns than known_headers; the per-table handler then reports the error
\* and goes on to the next table.
LabelTable(df) ==
    LET structure == detect_table_structure(df)
    IN  IF df.nrows = 0 \/ NCols(df) = 0
        THEN [structure |-> structure, skipped_reason |-> "empty_or_too_small",
              error |-> FALSE, detected_headers |-> <<>>, assigned_headers |-> <<>>,
              data_rows |-> 0]
        ELSE IF structure = "with_headers"
        THEN [structure |-> structure, skipped_reason |-> "", error |-> FALSE,
              detected_headers |-> FirstRow(df), assigned_headers |-> <<>>,
              data_rows |-> df.nrows - 1]
        ELSE IF NCols(df) > Len(known_headers)
        THEN [structure |-> structure, skipped_reason |-> "", error |-> TRUE,
              detected_headers |-> <<>>, assigned_headers |-> <<>>, data_rows |-> 0]
        ELSE [structure |-> structure, skipped_reason |-> "", error |-> FALSE,
              detected_headers |-> <<>>,
              assigned_headers |-> SubSeq(known_headers, 1, NCols(df)),
              data_rows |-> df.nrows]

\* robust_clean_dataframe, old format, on a raw frame (its columns are numbered,
\* none holds "date"): the same fallback list cut to the column count; the
\* ValueError of a wider frame leaves the function
LabelOldFormat(df) ==
    IF df.nrows = 0 \/ NCols(df) = 0
    THEN [raised |-> FALSE, columns |-> <<>>, data_rows |-> 0]
    ELSE IF NCols(df) > Len(known_headers)
    THEN [raised |-> TRUE, columns |-> <<>>, data_rows |-> 0]
    ELSE [raised |-> FALSE, columns |-> SubSeq(known_headers, 1, NCols(df)),
          data_rows |-> df.nrows]

MaxCells == 3

c_transfer == <<"T", "r", "a", "n", "s", "f", "e", "r">>
c_amount == <<"5", "0", "0", ".", "0", "0">>
c_day == <<"0", "1", "/", "0", "2", "/", "2", "0", "2", "5">>
c_pos == <<"P", "O", "S">>
HeaderCells == {c_date, c_narration, r_balance, r_description, r_debit}
DataCells == {c_transfer, c_amount, c_day, c_pos}

RawTables ==
    {RawTable(first, extra, nrows) :
        first \in SeqsUpTo(HeaderCells \cup DataCells, MaxCells),
        extra \in {0, 4, 5}, nrows \in 0..MaxRows}

HeadersInit ==
    /\ d_raw \in RawTables
    /\ d_parsed = None /\ d_ctx = <<>> /\ d_rules = <<>> /\ d_op = "init" /\ d_out = None
    /\ MergeIdle /\ PipeIdle /\ StoreIdle

\* one table of process_tables_directly
ProcessTable ==
    /\ d_op = "init"
    /\ d_out' = LabelTable(d_raw)
    /\ d_op' = "process_table"
    /\ UNCHANGED <<d_raw, d_parsed, d_ctx, d_rules, m_vars, p_vars, s_vars>>

\* robust_clean_dataframe on the raw table
RobustCleanTable ==
    /\ d_op = "init"
    /\ d_out' = LabelOldFormat(d_raw)
    /\ d_op' = "robust_clean"
    /\ UNCHANGED <<d_raw, d_parsed, d_ctx, d_rules, m_vars, p_vars, s_vars>>

HeadersNext == ProcessTable \/ RobustCleanTable

SpecHeaders == HeadersInit /\ [][HeadersNext]_vars

\* the canonical fields whose keywords occur in a cell of the row
FieldKeywords ==
    [date |-> {<<"d", "a", "t", "e">>, <<"t", "r", "a", "n", "s">>, <<"t", "i", "m", "e">>},
     description |-> {r_description, <<"n", "a", "r", "r", "a", "t", "i", "o", "n">>},
     debit |-> {r_debit},
     credit |-> {r_credit},
     balance |-> {r_balance}]
FieldsMatched(row) ==
    {f \in DOMAIN FieldKeywords :
        \E k \in DOMAIN row : \E w \in FieldKeywords[f] : Contains(LowerStr(row[k]), w)}

\* C21: the first row of a table is taken as its header exactly when its cells
\* match at least three distinct canonical fields; with fewer it stays a data row
C21_HeaderNeedsThreeFields ==
    (d_op = "process_table" /\ d_raw.nrows > 0) =>
        /\ d_out.structure = "with_headers" <=> Cardinality(FieldsMatched(FirstRow(d_raw))) >= 3
        /\ Cardinality(FieldsMatched(FirstRow(d_raw))) < 3 => d_out.data_rows = d_raw.nrows

\* C22: a data-only table of any width is labelled with the fallback list cut or
\* padded to its column count and all its rows are processed; it is not rejected
C22_FallbackFitsAnyWidth ==
    /\ (d_op = "process_table" /\ d_out.structure = "data_only") =>
          /\ ~d_out.error
          /\ Len(d_out.assigned_headers) = NCols(d_raw)
          /\ d_out.data_rows = d_raw.nrows
    /\ (d_op = "robust_clean" /\ d_raw.nrows > 0) =>
          /\ ~d_out.raised
          /\ Len(d_out.columns) = NCols(d_raw)
          /\ d_out.data_rows = d_raw.nrows

(***************************************************************************)
(* Manual review of flagged dates: statements/date_review_workflow.py,     *)
(* statements/enhanced_date_processor.py, statements/date_learning_engine. *)
(* The validated table is a sequence of rows; a row keeps the columns the  *)
(* review reads and writes.  Dates are plain strings here: the review code *)
(* copies them and never looks inside.                                     *)
(*   d_raw    the validated DataFrame the session was created from         *)
(*   d_ctx    session['candidates']                                        *)
(*   d_parsed DateReviewWorkflow.correction_learning, one entry per call   *)
(*            of _track_correction_for_learning                            *)
(*   d_rules  DateLearningEngine.correction_history                        *)
(*   d_out    the DataFrame returned by the last application               *)
(***************************************************************************)
NoValue == ""

ReviewAction == {"approve", "reject", "modify", "skip"}

\* the OCR strings of the rows, one per row index
OriginalDates == <<"Feb 2025", "24 2025">>

CorrectedDates == {NoValue, "15 Feb 2025"}

ActionsRequired == {"NONE", "AUTO_CORRECT", "MANUAL_REVIEW", "IMMEDIATE_REVIEW"}

IssueOf(action) == IF action = "NONE" THEN "OK" ELSE "Missing date component"

\* enhanced_date_validation leaves the raw_date column alone and attaches
\* the validation result, whose original_raw is the same string
ValidatedRow(i, action) ==
    [raw_date |-> OriginalDates[i], original_raw |-> OriginalDates[i],
     date_action_required |-> action, date_validation_issue |-> IssueOf(action)]

ValidatedTables ==
    {[i \in 1..Len(OriginalDates) |-> ValidatedRow(i, f[i])] :
        f \in [1..Len(OriginalDates) -> ActionsRequired]}

extract_review_candidates(df) ==
    {i \in DOMAIN df : df[i].date_action_required \in {"MANUAL_REVIEW", "IMMEDIATE_REVIEW"}}

Candidate(df, i) ==
    [row_index |-> i, original_date |-> df[i].original_raw,
     current_date |-> df[i].raw_date, issues |-> df[i].date_validation_issue,
     action_required |-> df[i].date_action_required,
     review_action |-> NoValue, manual_correction |-> NoValue]

RECURSIVE CandidatesFrom(_, _)
CandidatesFrom(df, i) ==
    IF i > Len(df) THEN <<>>
    ELSE (IF i \in extract_review_candidates(df) THEN <<Candidate(df, i)>> ELSE <<>>)
         \o CandidatesFrom(df, i + 1)

create_review_session(df) == CandidatesFrom(df, 1)

HasCandidate(session, row_index) ==
    \E k \in DOMAIN session : session[k].row_index = row_index

\* manual_correction is a key of the candidate only after a MODIFY that
\* came with a date; NoValue stands for the absent key
DecidedCandidate(cand, action, corrected_date) ==
    [cand EXCEPT !.review_action = action,
                 !.manual_correction =
                     IF action = "modify" /\ corrected_date # NoValue
                     THEN corrected_date ELSE @]

apply_review_decision(session, row_index, action, corrected_date) ==
    [k \in DOMAIN session |->
        IF session[k].row_index = row_index
        THEN DecidedCandidate(session[k], action, corrected_date)
        ELSE session[k]]

CandidateOf(session, row_index) ==
    session[CHOOSE k \in DOMAIN session : session[k].row_index = row_index]

_track_correction_for_learning(learning, cand, action, corrected_date) ==
    Append(learning, [original_pattern |-> cand.original_date, issues |-> cand.issues,
                      action |-> action, manual_correction |-> corrected_date])

CorrectedRow(row, cand) ==
    IF cand.review_action = "approve"
    THEN [row EXCEPT !.raw_date = IF cand.manual_correction # NoValue
                                  THEN cand.manual_correction ELSE cand.current_date,
                     !.date_action_required = "APPROVED",
                     !.date_validation_issue = "MANUALLY_APPROVED"]
    ELSE IF cand.review_action = "reject"
    THEN [row EXCEPT !.date_action_required = "REJECTED",
                     !.date_validation_issue = "MANUALLY_REJECTED"]
    ELSE row

apply_approved_corrections(df, session) ==
    [i \in DOMAIN df |->
        IF HasCandidate(session, i) THEN CorrectedRow(df[i], CandidateOf(session, i))
        ELSE df[i]]

CorrectionRecord(cand) ==
    [original_date |-> cand.original_date, corrected_date |-> cand.current_date,
     user_feedback |-> IF cand.review_action = "approve" THEN "approved" ELSE "rejected"]

RECURSIVE ImportFrom(_, _, _)
ImportFrom(history, session, k) ==
    IF k > Len(session) THEN history
    ELSE ImportFrom(IF session[k].review_action # NoValue
                    THEN Append(history, CorrectionRecord(session[k])) ELSE history,
                    session, k + 1)

\* record_correction appends to correction_history and adds one attempt to
\* the statistics of the record's pattern signature
import_review_session_data(history, session) == ImportFrom(history, session, 1)

total_attempts(history, original) ==
    Cardinality({k \in DOMAIN history : history[k].original_date = original})

DecisionsOn(learning, original) ==
    Cardinality({k \in DOMAIN learning : learning[k].original_pattern = original})

MaxDecisions == 2
MaxHistory == 3

NotReturned == [returned |-> FALSE, df |-> <<>>]

Returned(df) == [returned |-> TRUE, df |-> df]

ReviewInit ==
    /\ d_raw \in ValidatedTables
    /\ d_ctx = create_review_session(d_raw)
    /\ d_parsed = <<>>
    /\ d_rules = <<>>
    /\ d_op = "session"
    /\ d_out = NotReturned
    /\ MergeIdle /\ PipeIdle /\ StoreIdle

\* DateReviewWorkflow.apply_review_decision
ApplyReviewDecision ==
    /\ d_op # "init"
    /\ Len(d_parsed) < MaxDecisions
    /\ \E i \in DOMAIN d_raw, action \in ReviewAction, corrected \in CorrectedDates :
          IF HasCandidate(d_ctx, i)
          THEN /\ d_ctx' = apply_review_decision(d_ctx, i, action, corrected)
               /\ d_parsed' = _track_correction_for_learning(
                                d_parsed, CandidateOf(d_ctx', i), action, corrected)
               /\ d_op' = "decision"
          ELSE /\ d_op' = "decision_raised"
               /\ UNCHANGED <<d_ctx, d_parsed>>
    /\ UNCHANGED <<d_raw, d_rules, d_out>>
    /\ UNCHANGED <<m_vars, p_vars, s_vars>>

\* DateReviewWorkflow.apply_approved_corrections
ApplyApprovedCorrections ==
    /\ d_op # "init"
    /\ d_out' = Returned(apply_approved_corrections(d_raw, d_ctx))
    /\ d_op' = "applied"
    /\ UNCHANGED <<d_raw, d_ctx, d_parsed, d_rules>>
    /\ UNCHANGED <<m_vars, p_vars, s_vars>>

\* DateLearningEngine.import_review_session_data
ImportReviewSession ==
    /\ d_op # "init"
    /\ Len(import_review_session_data(d_rules, d_ctx)) <= MaxHistory
    /\ d_rules' = import_review_session_data(d_rules, d_ctx)
    /\ d_op' = "imported"
    /\ UNCHANGED <<d_raw, d_ctx, d_parsed, d_out>>
    /\ UNCHANGED <<m_vars, p_vars, s_vars>>

\* EnhancedDateProcessor.apply_review_decisions with a list of at most one
\* decision: the decision, the application and the import in one call
ApplyReviewDecisions ==
    /\ d_op # "init"
    /\ \E n \in 0..1, i \in DOMAIN d_raw, action \in ReviewAction, corrected \in CorrectedDates :
          /\ n = 1 => Len(d_parsed) < MaxDecisions
          /\ IF n = 1 /\ ~HasCandidate(d_ctx, i)
             THEN /\ d_op' = "decision_raised"
                  /\ UNCHANGED <<d_ctx, d_parsed, d_rules, d_out>>
             ELSE /\ d_ctx' = IF n = 1 THEN apply_review_decision(d_ctx, i, action, corrected)
                              ELSE d_ctx
                  /\ d_parsed' = IF n = 1
                                 THEN _track_correction_for_learning(
                                        d_parsed, CandidateOf(d_ctx', i), action, corrected)
                                 ELSE d_parsed
                  /\ d_out' = Returned(apply_approved_corrections(d_raw, d_ctx'))
                  /\ Len(import_review_session_data(d_rules, d_ctx')) <= MaxHistory
                  /\ d_rules' = import_review_session_data(d_rules, d_ctx')
                  /\ d_op' = "processed"
    /\ UNCHANGED d_raw
    /\ UNCHANGED <<m_vars, p_vars, s_vars>>

ReviewNext ==
    \/ ApplyReviewDecision
    \/ ApplyApprovedCorrections
    \/ ImportReviewSession
    \/ ApplyReviewDecisions

SpecReview == ReviewInit /\ [][ReviewNext]_vars

Decided(cand) == cand.review_action \in {"approve", "reject", "modify"}

\* C23: once a table has been returned by the application of the review
\* decisions, every row with an approve, reject or modify decision still
\* has the OCR string of the validated table in raw_date.
C23_RawDatePreserved ==
    d_out.returned =>
        \A k \in DOMAIN d_ctx :
            (d_op \in {"applied", "processed"} /\ Decided(d_ctx[k])) =>
                d_out.df[d_ctx[k].row_index].raw_date = d_ctx[k].original_date

\* C27: when the last decision recorded for a row is a MODIFY with a
\* corrected date and the decisions have been applied, the returned table
\* has the corrected date in that row and the row is not awaiting review.
C27_ModifyReachesTable ==
    (d_op \in {"applied", "processed"}) =>
        \A k \in DOMAIN d_ctx :
            (d_ctx[k].review_action = "modify" /\ d_ctx[k].manual_correction # NoValue) =>
                /\ d_out.df[d_ctx[k].row_index].raw_date = d_ctx[k].manual_correction
                /\ d_out.df[d_ctx[k].row_index].date_action_required
                       \notin {"MANUAL_REVIEW", "IMMEDIATE_REVIEW"}

\* C29: the learning history never holds more correction records (attempts
\* of the pattern) for a row than decisions were recorded for it, whatever
\* the number of applications and imports of the session.
C29_OneRecordPerDecision ==
    \A k \in DOMAIN d_ctx :
        total_attempts(d_rules, d_ctx[k].original_date)
            <= DecisionsOn(d_parsed, d_ctx[k].original_date)

(***************************************************************************)
(* A day glued to a month name, through the repair stage and the row       *)
(* validation of SpecDates.                                                *)
(***************************************************************************)

\* r'^\d{2}[A-Za-z]{3,}\s+\d{4}$': a two-digit day, a month name, a year
IsGluedDayMonth(s) == MatchPat(Tokens(s), <<D(2, 2), A(3, 99), Sp, D(4, 4)>>)

\* no rule of the store fires on the string: the built-in repair works alone
NoRuleFires(correction_rules, s) == apply_correction_rules(correction_rules, s).rule = ""

\* C24: a raw date whose two-digit day is glued to a month name, such as
\* "24Feb 2025", leaves the repair stage with a space between day and month
\* ("24 Feb 2025"), and the validation of the row parses it to that calendar
\* date (2025-02-24) and leaves the row with action NONE.
C24_GluedDayRepaired ==
    (IsGluedDayMonth(d_raw) /\ NoRuleFires(d_rules, d_raw)) =>
        /\ d_op = "repair" => d_out.once = SpaceDigitAlpha(d_raw)
        /\ d_op = "validate_row" =>
              /\ ~d_out.raised
              /\ d_out.is_valid
              /\ parse_date_flexible(d_out.raw_date) = parse_date_flexible(SpaceDigitAlpha(d_raw))
              /\ parse_date_flexible(d_out.raw_date) # None
              /\ d_out.action_required = "NONE"

(***************************************************************************)
(* Snapshots of the correction-rule store:                                 *)
(* banklytik_core/validators/deepseek_version_manager.py.  The operations  *)
(* are calls of one maintenance process, one after the other.              *)
(*   s_file   deepseek_knowledge.json: missing, not JSON, an object or a   *)
(*            list of rules                                                *)
(*   s_prev   the versions directory: snapshot number -> file content      *)
(*   s_cache  knowledge_loader._knowledge_data after the last reload       *)
(*   s_run    the last call and what it returned                           *)
(***************************************************************************)
MissingFile == [kind |-> "missing", items |-> <<>>]
InvalidFile == [kind |-> "invalid", items |-> <<>>]
ObjectFile == [kind |-> "object", items |-> <<>>]
ListFile(items) == [kind |-> "list", items |-> items]

\* the JSON object of an ObjectFile as an element of a list
ObjectItem == RuleRec("<object>", "<object>")

MaxVersions == 2
MaxStoreLen == 2

VersionNumbers(versions) == DOMAIN versions

\* the snapshots in the order of their names (numbers of one digit here)
list_versions(versions) == SortedSeq(VersionNumbers(versions))

\* the number of the latest snapshot again
LastVersionNumber(versions) ==
    IF VersionNumbers(versions) = {} THEN 1
    ELSE SetMax(VersionNumbers(versions))

\* one more than the greatest number among the snapshots, 1 when there is none
_next_version_number(versions) ==
    IF VersionNumbers(versions) = {} THEN 1
    ELSE SetMax(VersionNumbers(versions)) + 1

\* shutil.copy2(ACTIVE_FILE, backup_path): the bytes of the file under the new name
backup_current_version(file, versions) ==
    [n \in VersionNumbers(versions) \cup {_next_version_number(versions)} |->
        IF n = _next_version_number(versions) THEN file ELSE versions[n]]

\* json.load of the active file, [] on any exception
LoadedData(file) ==
    IF file.kind = "list" THEN file.items
    ELSE IF file.kind = "object" THEN <<ObjectItem>>
    ELSE <<>>

\* data.extend(valid_rules), or [data] + valid_rules for an object
merge_validated_rules(file, valid_rules) == ListFile(ExtendRules(LoadedData(file), valid_rules))

rollback_to_version(versions, version_number) == versions[version_number]

\* reload_knowledge: the JSON lists under banklytik_knowledge, by section; the
\* snapshots are read in the order of their numbers
RECURSIVE SnapshotItems(_, _)
SnapshotItems(versions, numbers) ==
    IF numbers = <<>> THEN <<>>
    ELSE (IF versions[Head(numbers)].kind = "list" THEN versions[Head(numbers)].items ELSE <<>>)
         \o SnapshotItems(versions, Tail(numbers))

ReloadedKnowledge(file, versions) ==
    [knowledge |-> IF file.kind = "list" THEN file.items ELSE <<>>,
     versions |-> SnapshotItems(versions, list_versions(versions))]

VersionBatches == {<<>>, <<RuleRec("Fev", "Feb")>>, <<RuleRec("O", "0")>>}

StoredFiles ==
    {MissingFile, InvalidFile, ObjectFile, ListFile(<<>>), ListFile(<<RuleRec("Fev", "Feb")>>)}

\* the versions directory at the start: empty, or with snapshots of earlier runs
StoredVersions ==
    {<<>>, <<ListFile(<<>>)>>, [n \in {2} |-> ListFile(<<RuleRec("l", "")>>)]}

Call(op, version, ok) == [op |-> op, version |-> version, ok |-> ok]

VersionsInit ==
    /\ s_file \in StoredFiles
    /\ s_prev \in StoredVersions
    /\ s_cache = ReloadedKnowledge(s_file, s_prev)
    /\ s_run = Call("start", 0, TRUE)
    /\ s_learn = <<>> /\ s_proc = <<>>
    /\ DatesIdle /\ MergeIdle /\ PipeIdle

BackupCurrentVersion ==
    /\ Cardinality(VersionNumbers(s_prev)) < MaxVersions \/ s_file = MissingFile
    /\ IF s_file = MissingFile
       THEN /\ s_run' = Call("backup", 0, FALSE)
            /\ UNCHANGED s_prev
       ELSE /\ s_prev' = backup_current_version(s_file, s_prev)
            /\ s_run' = Call("backup", _next_version_number(s_prev), TRUE)
    /\ UNCHANGED <<s_file, s_cache, s_learn, s_proc>>
    /\ UNCHANGED <<d_vars, m_vars, p_vars>>

MergeValidatedRules ==
    /\ \E valid_rules \in VersionBatches :
          IF valid_rules = <<>>
          THEN /\ s_run' = Call("merge", 0, FALSE)
               /\ UNCHANGED <<s_file, s_cache>>
          ELSE /\ Len(merge_validated_rules(s_file, valid_rules).items) <= MaxStoreLen
               /\ s_file' = merge_validated_rules(s_file, valid_rules)
               /\ s_cache' = ReloadedKnowledge(s_file', s_prev)
               /\ s_run' = Call("merge", 0, TRUE)
    /\ UNCHANGED <<s_prev, s_learn, s_proc>>
    /\ UNCHANGED <<d_vars, m_vars, p_vars>>

RollbackToVersion ==
    /\ \E version_number \in 0..(MaxVersions + 1) :
          IF version_number \in VersionNumbers(s_prev)
          THEN /\ s_file' = rollback_to_version(s_prev, version_number)
               /\ s_cache' = ReloadedKnowledge(s_file', s_prev)
               /\ s_run' = Call("rollback", version_number, TRUE)
          ELSE /\ s_run' = Call("rollback", version_number, FALSE)
               /\ UNCHANGED <<s_file, s_cache>>
    /\ UNCHANGED <<s_prev, s_learn, s_proc>>
    /\ UNCHANGED <<d_vars, m_vars, p_vars>>

VersionsNext == BackupCurrentVersion \/ MergeValidatedRules \/ RollbackToVersion

SpecVersions == VersionsInit /\ [][VersionsNext]_vars

\* C25: in every step, each snapshot that exists keeps its number and its
\* content; a snapshot that appears has a number greater than every existing
\* one and holds the active store of that moment; and a rollback to version
\* n that succeeds leaves the active store equal to snapshot n.  Hence after
\* any sequence of backups, merges and rollbacks a rollback to n restores
\* what was captured when snapshot n was taken.
C25_SnapshotsKept ==
    [][ /\ \A n \in VersionNumbers(s_prev) :
              n \in VersionNumbers(s_prev') /\ s_prev'[n] = s_prev[n]
        /\ \A n \in VersionNumbers(s_prev') \ VersionNumbers(s_prev) :
              /\ \A k \in VersionNumbers(s_prev) : n > k
              /\ s_prev'[n] = s_file
        /\ (s_run'.op = "rollback" /\ s_run'.ok) => s_file' = s_prev[s_run'.version]
        /\ (s_run'.op = "backup" /\ s_run'.ok) =>
              VersionNumbers(s_prev') # VersionNumbers(s_prev)
      ]_vars

\* a rollback has restored the first of two snapshots of different content,
\* taken before and after a merge
C25_Witness ==
    /\ s_run.op = "rollback" /\ s_run.ok
    /\ Cardinality(VersionNumbers(s_prev)) = 2
    /\ s_run.version = list_versions(s_prev)[1]
    /\ s_prev[s_run.version] # s_prev[SetMax(VersionNumbers(s_prev))]
    /\ s_file = s_prev[s_run.version]

(***************************************************************************)
(* The line filters of the institution parsers: statements/kuda_processor  *)
(* and statements/opay_processor.  A LINE block's text is kept as a        *)
(* transaction candidate when the parser's filter accepts it.              *)
(***************************************************************************)

\* the skip patterns of _is_transaction_line that are literal words
skip_patterns ==
    { <<"k", "u", "d", "a">>,
      <<"s", "u", "m", "m", "a", "r", "y">>,
      <<"a", "c", "c", "o", "u", "n", "t">>,
      <<"o", "p", "e", "n", "i", "n", "g", " ", "b", "a", "l", "a", "n", "c", "e">>,
      <<"c", "l", "o", "s", "i", "n", "g", " ", "b", "a", "l", "a", "n", "c", "e">>,
      <<"a", "l", "l", " ", "r", "i", "g", "h", "t", "s", " ", "r", "e", "s", "e", "r", "v", "e", "d">>,
      <<"d", "e", "p", "o", "s", "i", "t", "s", " ", "a", "r", "e", " ", "i", "n", "s", "u", "r", "e", "d">>,
      <<"l", "i", "c", "e", "n", "s", "e", "d", " ", "b", "y">>,
      <<"t", "r", "a", "d", "e", "m", "a", "r", "k", "s">>,
      <<"a", "c", "c", "o", "u", "n", "t", " ", "n", "u", "m", "b", "e", "r">>,
      <<"s", "t", "r", "e", "e", "t">>,
      <<"k", "a", "n", "o">>,
      <<"l", "a", "g", "o", "s">>,
      <<"l", "o", "n", "d", "o", "n">> }

\* r'page \d+ of \d+' matched at position i of a lower-cased line
RECURSIVE SkipDigits(_, _)
SkipDigits(s, i) == IF i <= Len(s) /\ IsDigit(s[i]) THEN SkipDigits(s, i + 1) ELSE i
PageOfAt(s, i) ==
    /\ OccursAt(s, <<"p", "a", "g", "e", " ">>, i)
    /\ DigitsAt(s, i + 5, i + 5)
    /\ OccursAt(s, <<" ", "o", "f", " ">>, SkipDigits(s, i + 5))
    /\ DigitsAt(s, SkipDigits(s, i + 5) + 4, SkipDigits(s, i + 5) + 4)

HasSkipPattern(text) ==
    \/ \E pat \in skip_patterns : Contains(LowerStr(text), pat)
    \/ \E i \in DOMAIN text : PageOfAt(LowerStr(text), i)

\* re.search(r'\d{1,2}/\d{1,2}/\d{2,4}', text): a match with a one-digit day
\* starts at the last digit before the first slash
KudaDateAt(s, i) ==
    /\ IsDigit(s[i]) /\ CharAt(s, i + 1, "/")
    /\ \/ DigitsAt(s, i + 2, i + 2) /\ CharAt(s, i + 3, "/") /\ DigitsAt(s, i + 4, i + 5)
       \/ DigitsAt(s, i + 2, i + 3) /\ CharAt(s, i + 4, "/") /\ DigitsAt(s, i + 5, i + 6)
HasKudaDate(text) == \E i \in DOMAIN text : KudaDateAt(text, i)

\* re.search of the amount pattern: a currency sign, spaces, a digit
CurrencySigns == {"N", "$"}
KudaAmountAt(s, i) ==
    s[i] \in CurrencySigns /\ DigitsAt(s, SkipSpaces(s, i + 1), SkipSpaces(s, i + 1))
HasKudaAmount(text) == \E i \in DOMAIN text : KudaAmountAt(text, i)

_is_transaction_line(text) ==
    IF HasSkipPattern(text) THEN FALSE
    ELSE HasKudaDate(text) /\ HasKudaAmount(text)

\* r'\d{4}\s+[A-Za-z]{3}\s+\d{1,2}\s+\d{1,2}:\d{2}:\d{2}' matched at position i
SpacesEnd(s, i) == IF i <= Len(s) /\ IsSpace(s[i]) THEN SkipSpaces(s, i) ELSE 0
OneOrTwoDigitsEnd(s, i, next(_, _)) ==
    IF DigitsAt(s, i, i + 1) /\ next(s, i + 2) THEN i + 2
    ELSE IF DigitsAt(s, i, i) /\ next(s, i + 1) THEN i + 1
    ELSE 0
SpaceNext(s, i) == i <= Len(s) /\ IsSpace(s[i])
ColonNext(s, i) == CharAt(s, i, ":")
OpayDateTimeAt(s, i) ==
    LET m == IF DigitsAt(s, i, i + 3) THEN SpacesEnd(s, i + 4) ELSE 0
        d == IF m # 0 /\ AlphaAt(s, m, m + 2) THEN SpacesEnd(s, m + 3) ELSE 0
        e == IF d # 0 THEN OneOrTwoDigitsEnd(s, d, SpaceNext) ELSE 0
        h == IF e # 0 THEN SpacesEnd(s, e) ELSE 0
        c == IF h # 0 THEN OneOrTwoDigitsEnd(s, h, ColonNext) ELSE 0
    IN  /\ c # 0
        /\ DigitsAt(s, c + 1, c + 2) /\ CharAt(s, c + 3, ":") /\ DigitsAt(s, c + 4, c + 5)

_is_opay_transaction_line(text) == \E i \in DOMAIN text : OpayDateTimeAt(text, i)

\* the footer terms of _is_valid_opay_transaction
footer_terms ==
    { <<"o", "p", "a", "y">>,
      <<"r", "i", "g", "h", "t", "s", " ", "r", "e", "s", "e", "r", "v", "e", "d">>,
      <<"d", "e", "p", "o", "s", "i", "t", " ", "i", "n", "s", "u", "r", "a", "n", "c", "e">>,
      <<"p", "a", "g", "e">>,
      <<"a", "c", "c", "o", "u", "n", "t", " ", "n", "u", "m", "b", "e", "r">> }

\* the text of the LINE blocks: up to MaxParts parts of statement lines
MaxParts == 3
LineParts ==
    { <<"2", "4", "/", "0", "2", "/", "2", "0", "2", "5", " ">>,
      <<"2", "0", "2", "5", " ", "F", "e", "b", " ", "2", "4", " ", "0", "7", ":", "3", "6", ":", "0", "1", " ">>,
      <<"$", "5", "0", "0", ".", "0", "0", " ">>,
      <<"T", "r", "a", "n", "s", "f", "e", "r", " ">>,
      <<"K", "u", "d", "a", " ", "M", "F", "B", " ">>,
      <<"P", "a", "g", "e", " ", "1", " ", "o", "f", " ", "2", " ">>,
      <<"A", "l", "l", " ", "r", "i", "g", "h", "t", "s", " ", "r", "e", "s", "e", "r", "v", "e", "d", " ">> }
BlockTexts == {Concat(f) : f \in SeqsUpTo(LineParts, MaxParts)}

LinesInit ==
    /\ d_raw \in BlockTexts
    /\ d_parsed = None /\ d_ctx = <<>> /\ d_rules = <<>>
    /\ d_op = "init" /\ d_out = [accepted |-> FALSE, text |-> <<>>]
    /\ MergeIdle /\ PipeIdle /\ StoreIdle

\* kuda_processor._extract_lines on one block
KudaExtractLine ==
    /\ d_op = "init"
    /\ d_out' = [accepted |-> Strip(d_raw) # <<>> /\ _is_transaction_line(Strip(d_raw)),
                 text |-> Strip(d_raw)]
    /\ d_op' = "kuda"
    /\ UNCHANGED <<d_raw, d_parsed, d_ctx, d_rules, m_vars, p_vars, s_vars>>

\* process_opay_statement lines 14-18 on one block
OpayExtractLine ==
    /\ d_op = "init"
    /\ d_out' = [accepted |-> Strip(d_raw) # <<>> /\ _is_opay_transaction_line(Strip(d_raw)),
                 text |-> Strip(d_raw)]
    /\ d_op' = "opay"
    /\ UNCHANGED <<d_raw, d_parsed, d_ctx, d_rules, m_vars, p_vars, s_vars>>

LinesNext == KudaExtractLine \/ OpayExtractLine

SpecLines == LinesInit /\ [][LinesNext]_vars

\* what the claim asks of a candidate, in the terms of the parsers themselves
DateLike(text) == HasKudaDate(text) \/ _is_opay_transaction_line(text)
AmountLike(text) ==
    \/ HasKudaAmount(text)
    \/ \E i \in DOMAIN text :
          IsDigit(text[i]) /\ CharAt(text, i + 1, ".") /\ DigitsAt(text, i + 2, i + 3)
Boilerplate(parser, text) ==
    IF parser = "kuda" THEN HasSkipPattern(text)
    ELSE \E term \in footer_terms : Contains(LowerStr(text), term)

\* C26: a line that the Kuda or the OPay parser keeps as a transaction
\* candidate holds a date-like substring and an amount-like substring (a
\* currency sign before a digit, or digits with two decimals) and none of
\* the boilerplate terms the parser knows.
C26_CandidatesAreTransactions ==
    (d_op \in {"kuda", "opay"} /\ d_out.accepted) =>
        /\ DateLike(d_out.text)
        /\ AmountLike(d_out.text)
        /\ ~Boilerplate(d_op, d_out.text)

(***************************************************************************)
(* The router with an institution code that has no active parser           *)
(***************************************************************************)

\* the codes for which get_processor falls back to the generic processor
HasNoActiveParser(bank_type) == get_processor(bank_type) = "process_tables_directly"

\* C28: in a run of the router on a statement with table regions whose
\* institution code has no active parser (AUTO, none, inactive or
\* unregistered), the generic processor is tried only on reconstructed
\* tables: whenever it has been tried, tables were extracted from the blocks
\* before, as on the auto-detect path.
C28_InactiveCodeIsGenericPath ==
    (p_in # None /\ p_in.entry = "router" /\ HasNoActiveParser(p_in.bank_type)
        /\ p_in.blocks.tables > 0 /\ p_tried # <<>>) =>
        /\ p_tried[1].strategy = "direct"
        /\ p_tables > 0

(***************************************************************************)
(* The manual table-selection session: statements/selection_session.py.    *)
(*   s_run    the state dictionary of the session object of the request    *)
(*   s_cache  the cache entry of the session: absent, or the saved state   *)
(* The state holds strings, lists, booleans and null only, so json.dumps   *)
(* followed by json.loads gives the same dictionary back.                  *)
(***************************************************************************)
NoFrame == [present |-> FALSE, rows |-> 0]
Records(rows) == [present |-> TRUE, rows |-> rows]

\* TableSelectionSession.__init__
NewSessionState ==
    [step |-> "table_selection", extracted_tables |-> 0, selected_table_ids |-> <<>>,
     column_mappings |-> <<>>, merged_data |-> NoFrame, final_dataframe |-> NoFrame,
     processing_complete |-> FALSE, error_message |-> ""]

NoEntry == [cached |-> FALSE, state |-> NewSessionState]
Entry(state) == [cached |-> TRUE, state |-> state]

\* get_session: a new object, then load(): the cached state when there is one
get_session(entry) == IF entry.cached THEN entry.state ELSE NewSessionState

set_extracted_tables(state, tables) == [state EXCEPT !.extracted_tables = tables]

set_selected_tables(state, table_ids) ==
    [state EXCEPT !.selected_table_ids = table_ids, !.step = "column_mapping"]

set_column_mappings(state, mappings) ==
    [state EXCEPT !.column_mappings = mappings, !.step = "preview"]

set_merged_data(state, merged_df) == [state EXCEPT !.merged_data = merged_df]

set_final_dataframe(state, final_df) ==
    [state EXCEPT !.final_dataframe = final_df, !.step = "complete"]

set_error(state, error_message) == [state EXCEPT !.error_message = error_message]

get_current_step(state) == state.step

is_complete(state) == state.processing_complete

TableIdLists == {<<>>, <<1>>, <<1, 2>>}
MappingLists == {<<"date">>, <<"date", "amount">>}
FrameInputs == {NoFrame, Records(0), Records(1)}

SessionInit ==
    /\ s_cache = NoEntry
    /\ s_run = NewSessionState
    /\ s_file = <<>> /\ s_learn = <<>> /\ s_prev = <<>> /\ s_proc = <<>>
    /\ DatesIdle /\ MergeIdle /\ PipeIdle

\* every setter ends with save(): the cache entry becomes the new state
Saved(state) ==
    /\ s_run' = state
    /\ s_cache' = Entry(state)
    /\ UNCHANGED <<s_file, s_learn, s_prev, s_proc, d_vars, m_vars, p_vars>>

\* a request starts: get_session(stmt.pk, user.id)
GetSession ==
    /\ s_run' = get_session(s_cache)
    /\ UNCHANGED <<s_cache, s_file, s_learn, s_prev, s_proc, d_vars, m_vars, p_vars>>

\* clear_session, or the entry's timeout of one hour
ClearSession ==
    /\ s_cache' = NoEntry
    /\ UNCHANGED <<s_run, s_file, s_learn, s_prev, s_proc, d_vars, m_vars, p_vars>>

SetExtractedTables == \E tables \in 1..MaxTables : Saved(set_extracted_tables(s_run, tables))

SetSelectedTables == \E ids \in TableIdLists : Saved(set_selected_tables(s_run, ids))

SetMergedData == \E df \in FrameInputs : Saved(set_merged_data(s_run, df))

SetColumnMappings == \E mappings \in MappingLists : Saved(set_column_mappings(s_run, mappings))

SetFinalDataframe == \E df \in FrameInputs : Saved(set_final_dataframe(s_run, df))

SetError == Saved(set_error(s_run, "error"))

\* views.map_columns lines 691-699: the mappings, then the final table
MapColumns ==
    \E mappings \in MappingLists, df \in FrameInputs :
        Saved(set_final_dataframe(set_column_mappings(s_run, mappings), df))

SessionNext ==
    \/ GetSession \/ ClearSession \/ SetExtractedTables \/ SetSelectedTables
    \/ SetMergedData \/ SetColumnMappings \/ SetFinalDataframe \/ SetError \/ MapColumns

SpecSession == SessionInit /\ [][SessionNext]_vars

\* C30: whatever operations the session has gone through, saved and loaded
\* again or not, is_complete() is true exactly when the current step is
\* 'complete'.
C30_CompleteFlagAgrees ==
    /\ is_complete(s_run) <=> get_current_step(s_run) = "complete"
    /\ s_cache.cached =>
          (is_complete(get_session(s_cache)) <=> get_current_step(get_session(s_cache)) = "complete")

====
